---------------------------- MODULE Spec2Model ----------------------------
(***************************************************************************)
(* Agentic-Chatbot: the routing core (agents/orchestrator.py), the         *)
(* natural-language meeting queries and the listings by date               *)
(* (tools/database_tool.py and agents/database_agent.py), the scheduling   *)
(* of a meeting (agents/scheduling_agent.py) and the meeting store they    *)
(* read and write; the weather tool (tools/weather_tool.py), the document  *)
(* tool (tools/document_tool.py) and the upload endpoint (main.py).        *)
(*                                                                         *)
(* Text is modelled as TLA+ strings; a regular expression of the source,   *)
(* always an alternation of literals, is the set of its alternatives, and  *)
(* re.search is a substring search (with word boundaries where the source  *)
(* pattern has \b).                                                        *)
(***************************************************************************)
EXTENDS Integers, Sequences, FiniteSets, TLC

VARIABLES
    meetings,       \* the meetings table, in insertion (id) order
    conversations,  \* the conversations table: rows committed by _save_conversation
    today,          \* the calendar day datetime.now() falls in
    call,           \* the last completed call: its inputs and what the caller got
    noted,          \* an earlier call the caller kept the result of, and its clock
    documents,      \* DocumentTool.documents: the dictionary of processed documents
    uploads,          \* the upload directory: the text of the file at each path
    sessions,       \* sessions of the meeting store opened and not closed
    tasks           \* calls in progress: where each stands and what it holds

vars == <<meetings, conversations, today, call, noted, documents, uploads, sessions, tasks>>

\* the state of the document tool, of the session pool and of the calls in progress
aux == <<documents, uploads, sessions, tasks>>

-----------------------------------------------------------------------------
(* Bounds of the model *)

MaxWords == 2       \* words per generated message
RouteMeetings == 1  \* rows in the meetings table under Spec
MaxMeetings == 2    \* rows in the meetings table under SpecQuery
MaxLog == 1         \* rows in the conversations table
StartDay == 1       \* the day the clock shows
TicksPerDay == 3    \* instants of a day: 0 is 00:00:00, TicksPerDay-1 is 23:59:59.999999
BulkMeetings == 11  \* rows in the meetings table under SpecBulk
MaxDay == 2         \* the last day the clock reaches
MaxSessions == 2    \* sessions left open before the model stops scheduling

-----------------------------------------------------------------------------
(* Python values *)

None == "<None>"

Get(d, k, default) == IF k \in DOMAIN d THEN d[k] ELSE default

Update(d, e) ==
    [k \in (DOMAIN d) \cup (DOMAIN e) |-> IF k \in DOMAIN e THEN e[k] ELSE d[k]]

Min(S) == CHOOSE x \in S : \A y \in S : x <= y

-----------------------------------------------------------------------------
(* The clock: an instant is a day and a tick of that day *)

\* datetime.combine(day, datetime.min.time()) and datetime.combine(day, datetime.max.time())
Midnight(day) == day * TicksPerDay
EndOfDay(day) == day * TicksPerDay + (TicksPerDay - 1)

-----------------------------------------------------------------------------
(* The calendar: datetime.strptime(date, '%Y-%m-%d') *)

DigitSeq == <<"0", "1", "2", "3", "4", "5", "6", "7", "8", "9">>

IsDigits(s) == \A i \in 1..Len(s) : \E n \in 1..10 : DigitSeq[n] = SubSeq(s, i, i)

\* int(s) of a string of digits
RECURSIVE ToInt(_)
ToInt(s) ==
    IF Len(s) = 0 THEN 0
    ELSE 10 * ToInt(SubSeq(s, 1, Len(s) - 1))
         + (CHOOSE n \in 0..9 : DigitSeq[n + 1] = SubSeq(s, Len(s), Len(s)))

IsLeap(y) == (y % 4 = 0 /\ y % 100 # 0) \/ y % 400 = 0

DaysInMonth(y, m) ==
    IF m = 2 THEN (IF IsLeap(y) THEN 29 ELSE 28)
    ELSE IF m \in {4, 6, 9, 11} THEN 30 ELSE 31

RECURSIVE DaysBeforeMonth(_, _)
DaysBeforeMonth(y, m) ==
    IF m = 1 THEN 0 ELSE DaysBeforeMonth(y, m - 1) + DaysInMonth(y, m - 1)

\* date(y, m, d).toordinal()
Ordinal(y, m, d) ==
    (y - 1) * 365 + ((y - 1) \div 4) - ((y - 1) \div 100) + ((y - 1) \div 400)
    + DaysBeforeMonth(y, m) + d

\* the calendar date of day 0 of the clock
EpochDate == [year |-> 2024, month |-> 1, day |-> 1]

\* the positions of the "-" of the text
Dashes(s) == {i \in 1..Len(s) : SubSeq(s, i, i) = "-"}

\* the fields %Y, %m, %d of a text of the form \d\d\d\d-\d{1,2}-\d{1,2}
DateFields(s) ==
    IF /\ Cardinality(Dashes(s)) = 2
       /\ 5 \in Dashes(s)
       /\ \E j \in Dashes(s) : j \in {7, 8} /\ Len(s) - j \in {1, 2}
       /\ \A i \in (1..Len(s)) \ Dashes(s) : IsDigits(SubSeq(s, i, i))
    THEN LET j == CHOOSE k \in Dashes(s) : k # 5
         IN [matched |-> TRUE, year |-> ToInt(SubSeq(s, 1, 4)),
             month |-> ToInt(SubSeq(s, 6, j - 1)),
             day |-> ToInt(SubSeq(s, j + 1, Len(s)))]
    ELSE [matched |-> FALSE]

\* the fields name a date of the calendar
IsDate(f) ==
    /\ f.matched
    /\ f.year >= 1
    /\ f.month \in 1..12
    /\ f.day >= 1
    /\ f.day <= DaysInMonth(f.year, f.month)

\* datetime.strptime(date_str, '%Y-%m-%d').date() as a day of the clock, or the
\* ValueError it raises
strptime(date_str) ==
    IF IsDate(DateFields(date_str))
    THEN [out |-> "return",
          value |-> Ordinal(DateFields(date_str).year, DateFields(date_str).month,
                            DateFields(date_str).day)
                    - Ordinal(EpochDate.year, EpochDate.month, EpochDate.day)]
    ELSE [out |-> "raise", value |-> "ValueError"]

-----------------------------------------------------------------------------
(* Text: str.lower, re.search *)

UpperCase == <<"A","B","C","D","E","F","G","H","I","J","K","L","M",
               "N","O","P","Q","R","S","T","U","V","W","X","Y","Z">>
LowerCase == <<"a","b","c","d","e","f","g","h","i","j","k","l","m",
               "n","o","p","q","r","s","t","u","v","w","x","y","z">>
Digits == {"0","1","2","3","4","5","6","7","8","9"}

LowerChar(c) ==
    IF \E i \in 1..Len(UpperCase) : UpperCase[i] = c
    THEN LowerCase[CHOOSE i \in 1..Len(UpperCase) : UpperCase[i] = c]
    ELSE c

RECURSIVE Lower(_)
Lower(s) ==
    IF Len(s) = 0 THEN ""
    ELSE LowerChar(SubSeq(s, 1, 1)) \o Lower(SubSeq(s, 2, Len(s)))

\* \w of the re module, on ASCII text
IsWordChar(c) ==
    \/ \E i \in 1..Len(LowerCase) : LowerCase[i] = c \/ UpperCase[i] = c
    \/ c \in Digits
    \/ c = "_"

\* the positions at which kw occurs in text
Occurrences(text, kw) ==
    {i \in 1..(Len(text) - Len(kw) + 1) : SubSeq(text, i, i + Len(kw) - 1) = kw}

\* re.search(r'(a|b|c)', text)
Search(alts, text) == \E kw \in alts : Occurrences(text, kw) # {}

\* \b before position i and after position j of text (kw starts and ends on \w)
BoundaryBefore(text, i) == i = 1 \/ ~IsWordChar(SubSeq(text, i - 1, i - 1))
BoundaryAfter(text, j) == j = Len(text) \/ ~IsWordChar(SubSeq(text, j + 1, j + 1))

\* re.search(r'\b(a|b|c)\b', text)
SearchWord(alts, text) ==
    \E kw \in alts : \E i \in Occurrences(text, kw) :
        BoundaryBefore(text, i) /\ BoundaryAfter(text, i + Len(kw) - 1)

\* Column.ilike('%kw%')
ILike(value, kw) == Occurrences(Lower(value), Lower(kw)) # {}

-----------------------------------------------------------------------------
(* The inputs of the model *)

\* " ".join(words)
RECURSIVE Join(_)
Join(words) ==
    IF Len(words) = 0 THEN ""
    ELSE IF Len(words) = 1 THEN words[1]
    ELSE words[1] \o " " \o Join(Tail(words))

Vocabulary == {"show", "count", "team", "tomorrow", "resume", "plan", "asdf"}

ExampleMessages ==
    {"schedule a team review meeting tomorrow", "asdf qwerty", "", "   ",
     "show team meetings tomorrow", "how many team meetings tomorrow",
     "What is the weather in Chennai today?", "show meetings today",
     "Hello from test!", "is there a review in london", "list appointment",
     "show client meetings", "show meetings yesterday",
     "show meetings this week"}

Messages ==
    ExampleMessages \cup
    {Join(ws) : ws \in UNION {[1..n -> Vocabulary] : n \in 0..MaxWords}}

ConversationIds == {None, "c1"}

\* the arguments of POST /api/schedule
ScheduleLocations == {"London", "Paris"}
ScheduleDates == {"tomorrow", "2024-13-45"}
ScheduleTitles == {"Team Meeting", "Team Review"}

\* the message OrchestratorAgent.schedule_meeting builds
ScheduleMessage(location, date, title) ==
    "Schedule " \o title \o " in " \o location \o " on " \o date

\* the arguments of SchedulingAgent.schedule_meeting
AgentScheduleDates == {"tomorrow", "2024-13-45", "2024-01-04"}
Weathers == {"error", "good", "bad"}

\* the arguments of GET /api/meetings
ListingDates == {None, "today", "tomorrow", "yesterday", "2024-01-03", "2024-13-45"}
ListingLocations == {None, "london"}

\* what goes wrong during a call: nothing, the handler, the query on the meetings
\* table, or a statement of _save_conversation
Faults == {"none", "handler", "store", "add", "commit", "rollback"}

\* the statement of DatabaseTool.create_meeting that raises, and the one of
\* SchedulingAgent.schedule_meeting
WriteFaults == {"none", "add", "commit", "refresh", "rollback"}
ScheduleFaults == {"none", "check", "add", "commit", "refresh"}

MeetingData ==
    {[title |-> "Team Review", location |-> "London",
      scheduled_date |-> Midnight(StartDay + 1) + 1, participants |-> << >>],
     [title |-> "Client Call", location |-> "Paris",
      scheduled_date |-> Midnight(StartDay), participants |-> <<"ana", "raj">>],
     [title |-> "Sprint Retro", location |-> "Chennai",
      scheduled_date |-> EndOfDay(StartDay + 1), participants |-> <<"ana">>]}

BulkData ==
    {[title |-> "Team Sync", location |-> "London",
      scheduled_date |-> Midnight(StartDay + 1) + 1, participants |-> << >>],
     [title |-> "Client Call", location |-> "Paris",
      scheduled_date |-> Midnight(StartDay), participants |-> << >>]}

BulkQueries ==
    {"show team meetings", "count team meetings", "is there a team meeting",
     "list meetings tomorrow", "how many meetings", "count meetings"}

\* every text the model hands to a classifier or a parser, and every day it does so
AllTexts ==
    Messages \cup BulkQueries \cup
    {ScheduleMessage(l, d, t) : l \in ScheduleLocations, d \in ScheduleDates,
                                t \in ScheduleTitles}
Days == StartDay..MaxDay

\* the calls that may be in progress at once, and a call that is not
Tasks == {1, 2}
NoTask == [pc |-> "idle"]

Idle ==
    [op |-> "idle", message |-> "", conversation_id |-> None, db_ok |-> TRUE,
     fault |-> "none", out |-> "return", value |-> [none |-> TRUE],
     agent_type |-> None, queries |-> 0]

-----------------------------------------------------------------------------
(* The meetings table (database/models.py) *)

\* Meeting.to_dict: the row as the dictionary handed to the caller
to_dict(m) ==
    [id |-> m.id, title |-> m.title, location |-> m.location,
     scheduled_date |-> m.scheduled_date, participants |-> m.participants,
     status |-> m.status]

\* Query.order_by(Meeting.scheduled_date.asc()): rows of equal date keep table order
RECURSIVE OrderByDate(_)
OrderByDate(rows) ==
    IF Len(rows) = 0 THEN << >>
    ELSE LET first == CHOOSE i \in 1..Len(rows) :
                          /\ \A j \in 1..Len(rows) :
                                 rows[i].scheduled_date <= rows[j].scheduled_date
                          /\ \A j \in 1..(i - 1) :
                                 rows[j].scheduled_date # rows[i].scheduled_date
             rest == [k \in 1..(Len(rows) - 1) |->
                          IF k < first THEN rows[k] ELSE rows[k + 1]]
         IN <<rows[first]>> \o OrderByDate(rest)

\* Query.limit(n)
Limit(rows, n) == SubSeq(rows, 1, IF n < Len(rows) THEN n ELSE Len(rows))

\* [meeting.to_dict() for meeting in meetings]
ToDicts(rows) == [i \in 1..Len(rows) |-> to_dict(rows[i])]

-----------------------------------------------------------------------------
(* tools/database_tool.py: DatabaseTool *)

ToolDateKeywords ==
    [today     |-> {"today", "now", "current day"},
     tomorrow  |-> {"tomorrow", "next day", "day after"},
     yesterday |-> {"yesterday", "previous day", "day before"},
     week      |-> {"week", "next week", "this week", "weekly"},
     month     |-> {"month", "next month", "this month", "monthly"}]

ToolActionKeywords ==
    [show     |-> {"show", "list", "display", "get", "find"},
     count    |-> {"count", "how many", "number of"},
     check    |-> {"check", "verify", "do we have", "is there"},
     schedule |-> {"schedule", "create", "add", "plan", "book"}]

ToolMeetingKeywords ==
    [review |-> {"review", "retrospective", "check-in", "status"},
     team   |-> {"team", "group", "department", "all hands"},
     client |-> {"client", "customer", "partner", "external"}]

\* the city names the extractor knows
Gazetteer == <<"chennai", "bengaluru", "mumbai", "delhi", "london", "new york", "paris">>

\* DatabaseTool._parse_query_type: the query kind of the first action keyword set
\* found in the text
_parse_query_type(query_lower) ==
    IF SearchWord(ToolActionKeywords.show, query_lower) THEN "get_meetings"
    ELSE IF SearchWord(ToolActionKeywords.count, query_lower) THEN "count_meetings"
    ELSE IF SearchWord(ToolActionKeywords.check, query_lower) THEN "check_meeting"
    ELSE "unknown"

\* the date range of a time phrase: today, tomorrow, yesterday, week, else all
ToolDateFilter(query_lower, now_day) ==
    IF SearchWord(ToolDateKeywords.today, query_lower)
    THEN [type |-> "today", start |-> Midnight(now_day), end |-> EndOfDay(now_day)]
    ELSE IF SearchWord(ToolDateKeywords.tomorrow, query_lower)
    THEN [type |-> "tomorrow", start |-> Midnight(now_day + 1),
          end |-> EndOfDay(now_day + 1)]
    ELSE IF SearchWord(ToolDateKeywords.yesterday, query_lower)
    THEN [type |-> "yesterday", start |-> Midnight(now_day - 1),
          end |-> EndOfDay(now_day - 1)]
    ELSE IF SearchWord(ToolDateKeywords.week, query_lower)
    THEN [type |-> "week", start |-> Midnight(now_day), end |-> EndOfDay(now_day + 7)]
    ELSE [type |-> "all"]

\* the category of a query: review, team, client, else any
ToolMeetingType(query_lower) ==
    IF SearchWord(ToolMeetingKeywords.review, query_lower) THEN "review"
    ELSE IF SearchWord(ToolMeetingKeywords.team, query_lower) THEN "team"
    ELSE IF SearchWord(ToolMeetingKeywords.client, query_lower) THEN "client"
    ELSE "any"

\* the first known city named in the text, or None
ToolLocation(query_lower) ==
    LET hits == {i \in 1..Len(Gazetteer) : Search({Gazetteer[i]}, query_lower)}
    IN IF hits = {} THEN None ELSE Gazetteer[Min(hits)]

DefaultLimit == 10

\* DatabaseTool._extract_parameters
_extract_parameters(query_lower, now_day) ==
    [date_filter  |-> ToolDateFilter(query_lower, now_day),
     meeting_type |-> ToolMeetingType(query_lower),
     location     |-> ToolLocation(query_lower),
     limit        |-> DefaultLimit]

\* _parse_query_type and _extract_parameters of each text, evaluated once
ToolParsed ==
    [d \in Days |-> [q \in AllTexts |->
        [query_type |-> _parse_query_type(Lower(q)),
         params |-> _extract_parameters(Lower(q), d)]]]

\* the WHERE clause of DatabaseTool._execute_get_meetings
ToolMatches(params, m) ==
    LET date_filter == Get(params, "date_filter", [type |-> "all"])
        meeting_type == Get(params, "meeting_type", None)
        location == Get(params, "location", None)
    IN /\ ("start" \in DOMAIN date_filter /\ "end" \in DOMAIN date_filter)
              => /\ m.scheduled_date >= date_filter.start
                 /\ m.scheduled_date <= date_filter.end
       /\ meeting_type = "review" => ILike(m.title, "review")
       /\ meeting_type = "team" => ILike(m.title, "team")
       /\ (location # None /\ location # "") => ILike(m.location, location)

\* The result of a call is [out, value, queries]: it returned value or raised, after
\* that many queries on the meetings table.
Raised(error, queries) ==
    [out |-> "raise", value |-> [exception |-> error], queries |-> queries]
Returned(value, queries) == [out |-> "return", value |-> value, queries |-> queries]

\* the dictionary DatabaseTool._execute_get_meetings returns for the rows found
GetMeetingsValue(params, found) ==
    [count |-> Len(found),
     meetings |-> ToDicts(found),
     filters_applied |->
         [date_range |-> Get(Get(params, "date_filter", [type |-> "all"]), "type", None),
          meeting_type |-> Get(params, "meeting_type", None),
          location |-> Get(params, "location", None)]]

\* _execute_get_meetings without the LIMIT
_execute_get_meetings_unlimited(params, rows, fails) ==
    IF fails THEN Raised("OperationalError", 1)
    ELSE Returned(GetMeetingsValue(params,
                      OrderByDate(SelectSeq(rows, LAMBDA m : ToolMatches(params, m)))),
                  1)

\* DatabaseTool._execute_get_meetings: one query on the meetings table
_execute_get_meetings(params, rows, fails) ==
    IF fails THEN Raised("OperationalError", 1)
    ELSE Returned(GetMeetingsValue(params,
                      Limit(OrderByDate(SelectSeq(rows, LAMBDA m : ToolMatches(params, m))),
                            Get(params, "limit", DefaultLimit))),
                  1)

\* the dictionary DatabaseTool._execute_count_meetings builds from the get result
CountMeetingsValue(params, result) ==
    [count |-> result.count,
     period |-> Get(Get(params, "date_filter", [type |-> "all"]), "type", "all"),
     meeting_type |-> Get(params, "meeting_type", "all"),
     location |-> Get(params, "location", "all")]

\* the caller's view of a call that used the result of an inner call
Then(inner, value) == IF inner.out = "raise" THEN inner ELSE Returned(value, inner.queries)

CountFrom(params, got) == Then(got, CountMeetingsValue(params, got.value))

\* _execute_count_meetings with a query of its own, a COUNT(*) that has no LIMIT
_execute_count_meetings_recount(params, rows, fails) ==
    IF fails THEN Raised("OperationalError", 1)
    ELSE Returned(CountMeetingsValue(params,
                      [count |-> Len(SelectSeq(rows, LAMBDA m : ToolMatches(params, m)))]),
                  1)

\* DatabaseTool._execute_count_meetings
_execute_count_meetings(params, rows, fails) ==
    CountFrom(params, _execute_get_meetings(params, rows, fails))

\* the dictionary DatabaseTool._execute_check_meeting builds from the get result
CheckMeetingValue(result) ==
    [exists |-> result.count > 0,
     count |-> result.count,
     message |-> IF result.count > 0 THEN "meeting(s) found" ELSE "No meetings found"]

CheckFrom(got) == Then(got, CheckMeetingValue(got.value))

\* DatabaseTool._execute_check_meeting
_execute_check_meeting(params, rows, fails) ==
    CheckFrom(_execute_get_meetings(params, rows, fails))

\* the try block of DatabaseTool.natural_language_query after the parsing
ToolExecute(query_type, params, rows, fails) ==
    IF query_type = "get_meetings" THEN _execute_get_meetings(params, rows, fails)
    ELSE IF query_type = "count_meetings" THEN _execute_count_meetings(params, rows, fails)
    ELSE IF query_type = "check_meeting" THEN _execute_check_meeting(params, rows, fails)
    ELSE Returned([error |-> "Could not understand query type"], 0)

\* what DatabaseTool.natural_language_query returns: the except branch or the envelope
ToolEnvelope(query, parsed, result, now_day, db_ok) ==
    IF result.out = "raise"
    THEN Returned([error |-> "Query processing error", original_query |-> query],
                  IF db_ok THEN result.queries ELSE 0)
    ELSE Returned([query_type |-> parsed.query_type, parameters |-> parsed.params,
                   result |-> result.value, original_query |-> query,
                   timestamp |-> now_day],
                  result.queries)

ToolQuery(query, parsed, rows, now_day, db_ok, fails) ==
    ToolEnvelope(query, parsed,
                 ToolExecute(parsed.query_type, parsed.params, rows, fails),
                 now_day, db_ok)

\* DatabaseTool.natural_language_query; db_ok is FALSE when db is None
natural_language_query(query, rows, now_day, db_ok, store_fails) ==
    ToolQuery(query, ToolParsed[now_day][query], rows, now_day, db_ok,
              store_fails \/ ~db_ok)

\* the try block of DatabaseTool.get_meetings: the day whose range the listing is
\* filtered on, or nothing when the date is not given or strptime raised
ToolTargetDate(date, now_day) ==
    IF date = None \/ date = "" THEN [filtered |-> FALSE]
    ELSE IF date = "today" THEN [filtered |-> TRUE, day |-> now_day]
    ELSE IF date = "tomorrow" THEN [filtered |-> TRUE, day |-> now_day + 1]
    ELSE IF date = "yesterday" THEN [filtered |-> TRUE, day |-> now_day - 1]
    ELSE IF strptime(date).out = "return"
    THEN [filtered |-> TRUE, day |-> strptime(date).value]
    ELSE [filtered |-> FALSE]

\* the WHERE clause of a listing
ListingMatches(target, location, m) ==
    /\ target.filtered => /\ m.scheduled_date >= Midnight(target.day)
                          /\ m.scheduled_date <= EndOfDay(target.day)
    /\ (location # None /\ location # "") => ILike(m.location, location)

\* DatabaseTool.get_meetings: one query on the meetings table, not in a try block
get_meetings(rows, now_day, date, location, fails) ==
    IF fails THEN Raised("OperationalError", 1)
    ELSE Returned(ToDicts(OrderByDate(SelectSeq(rows,
                      LAMBDA m : ListingMatches(ToolTargetDate(date, now_day), location, m)))),
                  1)

-----------------------------------------------------------------------------
(* agents/database_agent.py: DatabaseAgent *)

AgentPatterns ==
    [tomorrow  |-> {"tomorrow", "next day", "day after"},
     today     |-> {"today", "current day", "now"},
     week      |-> {"week", "next week", "this week", "weekly"},
     all       |-> {"all", "every", "list", "show"},
     review    |-> {"review", "retrospective", "check-in"},
     team      |-> {"team", "group", "department"},
     scheduled |-> {"scheduled", "planned", "arranged"}]

\* _extract_date_filter giving a text with a tomorrow marker the range of today
_extract_date_filter_unshifted(query, now_day) ==
    IF Search(AgentPatterns.today, query) \/ Search(AgentPatterns.tomorrow, query)
    THEN [type |-> IF Search(AgentPatterns.today, query) THEN "today" ELSE "tomorrow",
          date |-> now_day,
          start_date |-> Midnight(now_day), end_date |-> EndOfDay(now_day)]
    ELSE IF Search(AgentPatterns.week, query)
    THEN [type |-> "week",
          start_date |-> Midnight(now_day), end_date |-> EndOfDay(now_day + 7)]
    ELSE [type |-> "all"]

\* _extract_date_filter with the week counted backwards from today
_extract_date_filter_week_back(query, now_day) ==
    IF Search(AgentPatterns.today, query)
    THEN [type |-> "today", date |-> now_day,
          start_date |-> Midnight(now_day), end_date |-> EndOfDay(now_day)]
    ELSE IF Search(AgentPatterns.tomorrow, query)
    THEN [type |-> "tomorrow", date |-> now_day + 1,
          start_date |-> Midnight(now_day + 1), end_date |-> EndOfDay(now_day + 1)]
    ELSE IF Search(AgentPatterns.week, query)
    THEN [type |-> "week",
          start_date |-> Midnight(now_day), end_date |-> EndOfDay(now_day - 7)]
    ELSE [type |-> "all"]

\* DatabaseAgent._extract_date_filter
_extract_date_filter(query, now_day) ==
    IF Search(AgentPatterns.today, query)
    THEN [type |-> "today", date |-> now_day,
          start_date |-> Midnight(now_day), end_date |-> EndOfDay(now_day)]
    ELSE IF Search(AgentPatterns.tomorrow, query)
    THEN [type |-> "tomorrow", date |-> now_day + 1,
          start_date |-> Midnight(now_day + 1), end_date |-> EndOfDay(now_day + 1)]
    ELSE IF Search(AgentPatterns.week, query)
    THEN [type |-> "week",
          start_date |-> Midnight(now_day), end_date |-> EndOfDay(now_day + 7)]
    ELSE [type |-> "all"]

\* DatabaseAgent._extract_meeting_type
_extract_meeting_type(query) ==
    IF Search(AgentPatterns.review, query) THEN "review"
    ELSE IF Search(AgentPatterns.team, query) THEN "team"
    ELSE "any"

\* DatabaseAgent._parse_query
_parse_query(query, now_day) ==
    LET query_lower == Lower(query)
        query_type ==
            IF Search({"show", "list", "get", "find"}, query_lower) THEN "get_meetings"
            ELSE IF Search({"do we have", "is there", "any meeting"}, query_lower)
            THEN "check_meeting"
            ELSE IF Search({"how many", "count", "number"}, query_lower)
            THEN "count_meetings"
            ELSE "unknown"
    IN [query_type |-> query_type,
        params |-> [date_filter  |-> _extract_date_filter(query_lower, now_day),
                    meeting_type |-> _extract_meeting_type(query_lower),
                    limit        |-> 10]]

\* _parse_query of each text, evaluated once
AgentParsed == [d \in Days |-> [q \in AllTexts |-> _parse_query(q, d)]]

\* the WHERE clause of DatabaseAgent._get_meetings_query for the date filter and the
\* review type (the team type never gets as far as a WHERE clause, see team_filter)
AgentMatches(params, m) ==
    LET date_filter == Get(params, "date_filter", [type |-> "all"])
        kind == Get(date_filter, "type", None)
        meeting_type == Get(params, "meeting_type", None)
    IN /\ kind \in {"today", "tomorrow", "week"}
              => /\ m.scheduled_date >= date_filter.start_date
                 /\ m.scheduled_date <= date_filter.end_date
       /\ meeting_type = "review" => (ILike(m.title, "review") \/ ILike(m.title, "retro"))

\* Meeting.title.ilike('%team%') | Meeting.participants.any(): participants is a
\* Column(JSON), and any() exists for relationships and ARRAY columns only, so the
\* expression raises AttributeError while the filter is built, before any query
team_filter_raises(params) == Get(params, "meeting_type", None) = "team"

\* the dictionary DatabaseAgent builds for a row
AgentDict(m) ==
    [id |-> m.id, title |-> m.title, location |-> m.location,
     scheduled_date |-> m.scheduled_date, participants |-> m.participants,
     status |-> m.status]

\* [{...} for m in meetings]
AgentDicts(rows) == [i \in 1..Len(rows) |-> AgentDict(rows[i])]

\* DatabaseAgent._get_meetings_query: one query on the meetings table, no ORDER BY
_get_meetings_query(params, rows, fails) ==
    IF team_filter_raises(params) THEN Raised("AttributeError", 0)
    ELSE IF fails THEN Raised("OperationalError", 1)
    ELSE Returned(AgentDicts(Limit(SelectSeq(rows, LAMBDA m : AgentMatches(params, m)),
                                   Get(params, "limit", 10))),
                  1)

AgentCheckValue(found) ==
    [exists |-> Len(found) > 0, count |-> Len(found), meetings |-> found]

AgentCheckFrom(got) == Then(got, AgentCheckValue(got.value))

\* DatabaseAgent._check_meeting_query
_check_meeting_query(params, rows, fails) ==
    AgentCheckFrom(_get_meetings_query(params, rows, fails))

AgentCountValue(params, found) ==
    [count |-> Len(found),
     period |-> Get(Get(params, "date_filter", [type |-> "all"]), "type", "all"),
     meeting_type |-> Get(params, "meeting_type", "any")]

AgentCountFrom(params, got) == Then(got, AgentCountValue(params, got.value))

\* DatabaseAgent._count_meetings_query
_count_meetings_query(params, rows, fails) ==
    AgentCountFrom(params, _get_meetings_query(params, rows, fails))

\* the try block of DatabaseAgent.process_query after the parsing
AgentExecute(query_type, params, rows, fails) ==
    IF query_type = "get_meetings" THEN _get_meetings_query(params, rows, fails)
    ELSE IF query_type = "check_meeting" THEN _check_meeting_query(params, rows, fails)
    ELSE IF query_type = "count_meetings" THEN _count_meetings_query(params, rows, fails)
    ELSE Returned([error |-> "Could not understand query"], 0)

\* what DatabaseAgent.process_query returns: the except branch or the envelope
AgentEnvelope(query, parsed, result, now_day, db_ok) ==
    IF result.out = "raise"
    THEN Returned([error |-> "Query processing error", query |-> query],
                  IF db_ok THEN result.queries ELSE 0)
    ELSE Returned([query_type |-> parsed.query_type, parameters |-> parsed.params,
                   result |-> result.value, timestamp |-> now_day],
                  result.queries)

AgentQuery(query, parsed, rows, now_day, db_ok, fails) ==
    AgentEnvelope(query, parsed,
                  AgentExecute(parsed.query_type, parsed.params, rows, fails),
                  now_day, db_ok)

\* process_query with a limit that shrinks as the table grows
process_query_by_table(query, rows, now_day, db_ok, store_fails) ==
    AgentQuery(query,
               [AgentParsed[now_day][query] EXCEPT !.params.limit = 10 - Len(rows)],
               rows, now_day, db_ok, store_fails \/ ~db_ok)

\* DatabaseAgent.process_query; db_ok is FALSE when db_session is None
process_query(query, rows, now_day, db_ok, store_fails) ==
    AgentQuery(query, AgentParsed[now_day][query], rows, now_day, db_ok,
               store_fails \/ ~db_ok)

\* the try block of DatabaseAgent.get_meetings
AgentTargetDate(date, now_day) ==
    IF date = None \/ date = "" THEN [filtered |-> FALSE]
    ELSE IF date = "today" THEN [filtered |-> TRUE, day |-> now_day]
    ELSE IF date = "tomorrow" THEN [filtered |-> TRUE, day |-> now_day + 1]
    ELSE IF strptime(date).out = "return"
    THEN [filtered |-> TRUE, day |-> strptime(date).value]
    ELSE [filtered |-> FALSE]

\* DatabaseAgent.get_meetings: one query on the meetings table, no ORDER BY
agent_get_meetings(rows, now_day, date, fails) ==
    IF fails THEN Raised("OperationalError", 1)
    ELSE Returned(AgentDicts(SelectSeq(rows,
                      LAMBDA m : ListingMatches(AgentTargetDate(date, now_day), None, m))),
                  1)

-----------------------------------------------------------------------------
(* agents/scheduling_agent.py: SchedulingAgent *)

\* SchedulingAgent._parse_date: the instant of the date string, tomorrow's midnight
\* when strptime raises
_parse_date(date_str, now_day) ==
    IF date_str = "today" THEN Midnight(now_day)
    ELSE IF date_str = "tomorrow" THEN Midnight(now_day + 1)
    ELSE IF date_str = "yesterday" THEN Midnight(now_day - 1)
    ELSE IF strptime(date_str).out = "return" THEN Midnight(strptime(date_str).value)
    ELSE Midnight(now_day + 1)

\* _check_existing_meeting comparing the date string with the start of today
_check_existing_meeting_today(rows, now_day, date, location, title) ==
    LET hits == {i \in 1..Len(rows) :
                    /\ rows[i].title = title
                    /\ rows[i].location = location
                    /\ rows[i].scheduled_date = Midnight(now_day)}
    IN IF hits = {} THEN [found |-> FALSE]
       ELSE [found |-> TRUE, id |-> rows[Min(hits)].id]

\* SchedulingAgent._check_existing_meeting: the first row of that title, location and
\* instant, if there is one
_check_existing_meeting(rows, now_day, date, location, title) ==
    LET hits == {i \in 1..Len(rows) :
                    /\ rows[i].title = title
                    /\ rows[i].location = location
                    /\ rows[i].scheduled_date = _parse_date(date, now_day)}
    IN IF hits = {} THEN [found |-> FALSE]
       ELSE [found |-> TRUE, id |-> rows[Min(hits)].id]

\* the row SchedulingAgent.schedule_meeting inserts
ScheduledMeeting(rows, now_day, location, date, meeting_title) ==
    [id |-> Len(rows) + 1, title |-> meeting_title, location |-> location,
     scheduled_date |-> _parse_date(date, now_day),
     participants |-> << >>, status |-> "scheduled"]

\* the dictionary of the except block of schedule_meeting
SchedulingError == [status |-> "error", message |-> "Error scheduling meeting"]

\* SchedulingAgent.schedule_meeting. weather is what the weather agent answers:
\* "error", "good" or "bad"; fault is the statement on the session that raises, if it
\* is reached: "none", "check" (the query of _check_existing_meeting), "add",
\* "commit" or "refresh" (after the commit went through). The result is
\* [out, rows, value, session]: the meetings table afterwards, what the caller gets,
\* and the session of the call: "none" (never opened), "closed" or left "open".
agent_schedule_meeting(rows, now_day, location, date, meeting_title, weather, fault) ==
    IF weather = "error"
    THEN [out |-> "return", rows |-> rows, session |-> "none",
          value |-> [status |-> "error", message |-> "Could not get weather data"]]
    ELSE IF fault = "check"
    THEN [out |-> "return", rows |-> rows, session |-> "open", value |-> SchedulingError]
    ELSE IF _check_existing_meeting(rows, now_day, date, location, meeting_title).found
    THEN [out |-> "return", rows |-> rows, session |-> "closed",
          value |-> [status |-> "exists",
                     meeting_id |-> _check_existing_meeting(rows, now_day, date, location,
                                                            meeting_title).id,
                     weather_decision |-> weather]]
    ELSE IF weather = "good" /\ fault \in {"add", "commit"}
    THEN [out |-> "return", rows |-> rows, session |-> "open", value |-> SchedulingError]
    ELSE IF weather = "good" /\ fault = "refresh"
    THEN [out |-> "return", session |-> "open", value |-> SchedulingError,
          rows |-> Append(rows, ScheduledMeeting(rows, now_day, location, date,
                                                 meeting_title))]
    ELSE IF weather = "good"
    THEN [out |-> "return", session |-> "closed",
          rows |-> Append(rows, ScheduledMeeting(rows, now_day, location, date,
                                                 meeting_title)),
          value |-> [status |-> "scheduled", meeting_id |-> Len(rows) + 1,
                     weather_decision |-> "good"]]
    ELSE [out |-> "return", rows |-> rows, session |-> "closed",
          value |-> [status |-> "cancelled", weather_decision |-> "bad"]]

-----------------------------------------------------------------------------
(* agents/orchestrator.py: OrchestratorAgent *)

\* self.decision_patterns, in the order the dictionary is written
decision_patterns ==
    << [agent |-> "weather",
        patterns |-> << {"weather", "temperature", "forecast", "rain", "sunny",
                         "cloudy", "humidity"},
                        {"today", "tomorrow", "yesterday"},
                        {"chennai", "bengaluru", "mumbai", "delhi", "london",
                         "new york", "paris"} >>],
       [agent |-> "document",
        patterns |-> << {"resume", "document", "upload", "policy", "leave", "ceo",
                         "file", "pdf", "txt"},
                        {"what is", "who is", "how many", "when is", "where is"} >>],
       [agent |-> "scheduling",
        patterns |-> << {"schedule", "meeting", "team", "verify", "check", "create",
                         "plan"},
                        {"if", "when", "check", "create", "tomorrow", "today"} >>],
       [agent |-> "database",
        patterns |-> << {"show", "list", "get", "find", "search", "meetings",
                         "appointment"},
                        {"today", "tomorrow", "week", "next", "scheduled",
                         "planned"} >>] >>

\* some pattern of the entry's set is found in the text
PatternSetMatches(entry, text) ==
    \E p \in 1..Len(entry.patterns) : Search(entry.patterns[p], text)

\* OrchestratorAgent._determine_agent: the first intent, in the order of
\* decision_patterns, with a pattern found in the lower-cased message
_determine_agent(message) ==
    LET text == Lower(message)
        hits == {i \in 1..Len(decision_patterns) :
                     PatternSetMatches(decision_patterns[i], text)}
    IN IF hits = {} THEN "unknown" ELSE decision_patterns[Min(hits)].agent

\* _determine_agent of each text, evaluated once
AgentTypeOf == [m \in AllTexts |-> _determine_agent(m)]

\* The handlers. A handler hands the raw message to its collaborator; `fails` is the
\* handler raising instead of returning.
_handle_weather(message, fails) ==
    IF fails THEN Raised("weather handler", 0)
    ELSE Returned([agent |-> "weather", response |-> "weather report",
                   confidence |-> 90], 0)

_handle_document(message, fails) ==
    IF fails THEN Raised("document handler", 0)
    ELSE Returned([agent |-> "document", response |-> "document answer",
                   confidence |-> 80], 0)

\* the answer built from the result q of the query on the meetings table
QueryAnswer(agent, q, fails) ==
    IF fails THEN Raised("handler", q.queries)
    ELSE Returned([agent |-> agent, response |-> "query result",
                   confidence |-> IF "error" \in DOMAIN q.value THEN 0 ELSE 85,
                   data |-> q.value],
                  q.queries)

\* scheduling and database messages are answered from the meetings table
_handle_database(message, rows, now_day, db_ok, fails, store_fails) ==
    QueryAnswer("database",
                natural_language_query(message, rows, now_day, db_ok, store_fails),
                fails)

_handle_scheduling(message, rows, now_day, db_ok, fails, store_fails) ==
    QueryAnswer("scheduling",
                natural_language_query(message, rows, now_day, db_ok, store_fails),
                fails)

_handle_general(message) ==
    Returned([agent |-> "general", response |-> "could not understand",
              confidence |-> 0], 0)

\* OrchestratorAgent._save_conversation. log_fault is the statement that raises:
\* "none", "add", "commit", or "rollback" (the commit raises and then the rollback does).
\* The result is [out, rows]: the conversations table afterwards.
_save_conversation(log, conversation_id, user_message, agent_response, agent_type, confidence, log_fault) ==
    IF log_fault = "none"
    THEN [out |-> "return",
          rows |-> Append(log, [conversation_id |-> conversation_id,
                                agent_type |-> agent_type,
                                confidence |-> confidence])]
    ELSE IF log_fault \in {"add", "commit"}
    THEN [out |-> "return", rows |-> log]
    ELSE [out |-> "raise", rows |-> log]

\* Route with the scheduling branch calling the database handler
Route_swapped(agent_type, message, rows, now_day, db_ok, handler_fails, store_fails) ==
    IF agent_type = "weather" THEN _handle_weather(message, handler_fails)
    ELSE IF agent_type = "document" THEN _handle_document(message, handler_fails)
    ELSE IF agent_type = "scheduling"
    THEN _handle_database(message, rows, now_day, db_ok, handler_fails, store_fails)
    ELSE IF agent_type = "database"
    THEN _handle_scheduling(message, rows, now_day, db_ok, handler_fails, store_fails)
    ELSE _handle_general(message)

\* Route with no else branch of its own: an unknown message goes to the weather handler
Route_no_general(agent_type, message, rows, now_day, db_ok, handler_fails, store_fails) ==
    IF agent_type = "document" THEN _handle_document(message, handler_fails)
    ELSE IF agent_type = "scheduling"
    THEN _handle_scheduling(message, rows, now_day, db_ok, handler_fails, store_fails)
    ELSE IF agent_type = "database"
    THEN _handle_database(message, rows, now_day, db_ok, handler_fails, store_fails)
    ELSE _handle_weather(message, handler_fails)

\* the routing of OrchestratorAgent.process: the handler of the agent type
Route(agent_type, message, rows, now_day, db_ok, handler_fails, store_fails) ==
    IF agent_type = "weather" THEN _handle_weather(message, handler_fails)
    ELSE IF agent_type = "document" THEN _handle_document(message, handler_fails)
    ELSE IF agent_type = "scheduling"
    THEN _handle_scheduling(message, rows, now_day, db_ok, handler_fails, store_fails)
    ELSE IF agent_type = "database"
    THEN _handle_database(message, rows, now_day, db_ok, handler_fails, store_fails)
    ELSE _handle_general(message)

\* the dictionary of the except branch of OrchestratorAgent.process
ErrorResponse ==
    [agent |-> "error", response |-> "Sorry, I encountered an error",
     confidence |-> 0, suggestion |-> "Please try rephrasing your question."]

\* the end of OrchestratorAgent.process: the metadata added to the response, or the
\* dictionary of the except branch. The result is [out, value, agent_type, queries,
\* log]: what the caller gets, the agent type chosen, the queries made on the
\* meetings table and the conversations table afterwards.
ProcessReturn(message, conversation_id, now_day, agent_type, response, saved) ==
    IF response.out = "raise" \/ saved.out = "raise"
    THEN [out |-> "return", value |-> ErrorResponse, agent_type |-> agent_type,
          queries |-> response.queries, log |-> saved.rows]
    ELSE [out |-> "return",
          value |-> Update(response.value,
                           [agent_used |-> agent_type,
                            conversation_id |-> conversation_id,
                            timestamp |-> now_day,
                            original_message |-> message]),
          agent_type |-> agent_type, queries |-> response.queries,
          log |-> saved.rows]

\* the middle of OrchestratorAgent.process: the conversation saved when db is given
ProcessSave(message, conversation_id, log, now_day, db_ok, log_fault, agent_type, response) ==
    ProcessReturn(message, conversation_id, now_day, agent_type, response,
                  IF db_ok /\ response.out = "return"
                  THEN _save_conversation(log, conversation_id, message,
                                          Get(response.value, "response", ""),
                                          agent_type,
                                          Get(response.value, "confidence", 0),
                                          log_fault)
                  ELSE [out |-> "return", rows |-> log])

ProcessRoute(message, conversation_id, rows, log, now_day, db_ok, handler_fails, store_fails, log_fault, agent_type) ==
    ProcessSave(message, conversation_id, log, now_day, db_ok, log_fault, agent_type,
                Route(agent_type, message, rows, now_day, db_ok, handler_fails,
                      store_fails))

\* OrchestratorAgent.process
process(message, conversation_id, rows, log, now_day, db_ok, handler_fails, store_fails, log_fault) ==
    ProcessRoute(message, conversation_id, rows, log, now_day, db_ok, handler_fails,
                 store_fails, log_fault, AgentTypeOf[message])

\* OrchestratorAgent.schedule_meeting
schedule_meeting(location, date, title, rows, now_day, db_ok, handler_fails, store_fails) ==
    IF ~db_ok
    THEN Returned([error |-> "Database connection required"], 0)
    ELSE _handle_scheduling(ScheduleMessage(location, date, title),
                            rows, now_day, db_ok, handler_fails, store_fails)


\* the row DatabaseTool.create_meeting inserts
NewMeeting(rows, meeting_data) ==
    [id |-> Len(rows) + 1,
     title |-> meeting_data.title,
     location |-> meeting_data.location,
     scheduled_date |-> meeting_data.scheduled_date,
     participants |-> meeting_data.participants,
     status |-> "scheduled"]

\* DatabaseTool.create_meeting: the table afterwards and what the caller gets.
\* fault is the statement of the session that raises: "none", "add", "commit",
\* "refresh" (after the commit went through) or "rollback" (the commit raises and
\* then the rollback of the except block does).
create_meeting(rows, meeting_data, fault) ==
    IF fault \in {"add", "commit"}
    THEN [out |-> "return", rows |-> rows,
          value |-> [status |-> "error", message |-> "Failed to create meeting"]]
    ELSE IF fault = "rollback"
    THEN [out |-> "raise", rows |-> rows, value |-> [exception |-> "OperationalError"]]
    ELSE IF fault = "refresh"
    THEN [out |-> "return", rows |-> Append(rows, NewMeeting(rows, meeting_data)),
          value |-> [status |-> "error", message |-> "Failed to create meeting"]]
    ELSE [out |-> "return", rows |-> Append(rows, NewMeeting(rows, meeting_data)),
          value |-> [status |-> "success",
                     message |-> "Meeting created successfully",
                     meeting |-> to_dict(NewMeeting(rows, meeting_data))]]

-----------------------------------------------------------------------------
(* tools/weather_tool.py: WeatherTool. A number with a decimal place (a
   temperature, a wind speed) is counted in tenths; the timestamp of a record is
   left out. *)

Deci(n) == n * 10

\* the value of OPENWEATHER_API_KEY that stands for no key
PlaceholderKey == "your_api_key_here_register_at_openweathermap.org"

\* self.mock_data, in the order the dictionary is written
mock_data ==
    << [key |-> "chennai", temp |-> 32, humidity |-> 70, condition |-> "Partly cloudy"],
       [key |-> "bengaluru", temp |-> 28, humidity |-> 65, condition |-> "Sunny"],
       [key |-> "london", temp |-> 15, humidity |-> 80, condition |-> "Cloudy"],
       [key |-> "mumbai", temp |-> 30, humidity |-> 75, condition |-> "Humid"],
       [key |-> "delhi", temp |-> 35, humidity |-> 60, condition |-> "Clear"] >>

\* the entry of self.mock_data the for loop stops at, or the default values
MockEntry(location) ==
    LET hits == {i \in 1..Len(mock_data) :
                    Search({mock_data[i].key}, Lower(location))}
    IN IF hits # {} THEN mock_data[Min(hits)]
       ELSE [key |-> "", temp |-> 25, humidity |-> 65, condition |-> "Clear"]

\* condition.split()[0] of a condition that starts with a word
RECURSIVE FirstWord(_)
FirstWord(text) ==
    IF Len(text) = 0 \/ SubSeq(text, 1, 1) = " " THEN ""
    ELSE SubSeq(text, 1, 1) \o FirstWord(SubSeq(text, 2, Len(text)))

MockTemp(temp, date) ==
    IF date = "tomorrow" THEN temp + 2
    ELSE IF date = "yesterday" THEN temp - 1
    ELSE temp

MockCondition(condition, date) ==
    IF date = "tomorrow" THEN "Mostly sunny"
    ELSE IF date = "yesterday" THEN "Partly cloudy"
    ELSE condition

\* WeatherTool._get_mock_weather
_get_mock_weather(location, date) ==
    [location    |-> location,
     date        |-> IF date = None \/ date = "" THEN "today" ELSE date,
     temperature |-> Deci(MockTemp(MockEntry(location).temp, date)),
     humidity    |-> MockEntry(location).humidity,
     pressure    |-> 1013,
     wind_speed  |-> 125,
     conditions  |-> MockCondition(MockEntry(location).condition, date),
     main        |-> FirstWord(MockCondition(MockEntry(location).condition, date)),
     icon        |-> IF Search({"sunny", "clear"},
                               Lower(MockCondition(MockEntry(location).condition, date)))
                     THEN "01d" ELSE "04d",
     source      |-> "mock_data"]

\* the places WeatherTool._get_mock_coordinates knows, in the order they are written
MockPlaces == <<"chennai", "bengaluru", "london", "mumbai", "delhi">>

\* WeatherTool._get_mock_coordinates: the first place found in the location, Chennai
\* when there is none
_get_mock_coordinates(location) ==
    LET hits == {i \in 1..Len(MockPlaces) : Search({MockPlaces[i]}, Lower(location))}
    IN [found |-> TRUE,
        name |-> IF hits # {} THEN MockPlaces[Min(hits)] ELSE "chennai"]

\* _get_coordinates giving up when the geocoder has no answer
_get_coordinates_or_none(api_key, location, geocode) ==
    IF api_key = None \/ api_key = "" THEN _get_mock_coordinates(location)
    ELSE IF geocode = "found" THEN [found |-> TRUE, name |-> location]
    ELSE [found |-> FALSE]

\* WeatherTool._get_coordinates. geocode is what the geocoder does: "found" (a list
\* with an entry), "empty" (an empty list) or "fail" (the request or the JSON raises)
_get_coordinates(api_key, location, geocode) ==
    IF api_key = None \/ api_key = "" THEN _get_mock_coordinates(location)
    ELSE IF geocode = "found" THEN [found |-> TRUE, name |-> location]
    ELSE _get_mock_coordinates(location)

\* the record built from a report of the provider
ProviderRecord(location, date, report) ==
    [location    |-> location,
     date        |-> date,
     temperature |-> report.temp,
     wind_speed  |-> report.wind_speed,
     conditions  |-> report.description,
     main        |-> report.main,
     source      |-> "openweathermap"]

\* WeatherTool._get_current_weather. report is what the provider answers: status
\* "ok" with the measures, "malformed" (a key is missing) or "fail" (the request raises)
_get_current_weather(location, report) ==
    IF report.status = "ok" THEN ProviderRecord(location, "today", report)
    ELSE _get_mock_weather(location, "today")

\* WeatherTool._get_forecast
_get_forecast(location, report) ==
    IF report.status = "ok" THEN ProviderRecord(location, "tomorrow", report)
    ELSE _get_mock_weather(location, "tomorrow")

\* WeatherTool._get_historical_weather
_get_historical_weather(location) ==
    [location    |-> location,
     date        |-> "yesterday",
     temperature |-> 285,
     humidity    |-> 65,
     pressure    |-> 1013,
     wind_speed  |-> 125,
     conditions  |-> "Partly cloudy",
     main        |-> "Clouds",
     note        |-> "Historical weather simulation",
     source      |-> "simulation"]

\* WeatherTool.get_weather: [out, value]. No statement of the try block raises for a
\* location that is a string, so its except block is not reached.
get_weather(api_key, location, date, geocode, report) ==
    IF api_key = None \/ api_key = "" \/ api_key = PlaceholderKey
    THEN [out |-> "return", value |-> _get_mock_weather(location, date)]
    ELSE IF ~_get_coordinates(api_key, location, geocode).found
    THEN [out |-> "return",
          value |-> [error |-> "Location '" \o location \o "' not found"]]
    ELSE IF date = "today" \/ date = None
    THEN [out |-> "return", value |-> _get_current_weather(location, report)]
    ELSE IF date = "tomorrow"
    THEN [out |-> "return", value |-> _get_forecast(location, report)]
    ELSE IF date = "yesterday"
    THEN [out |-> "return", value |-> _get_historical_weather(location)]
    ELSE [out |-> "return", value |-> _get_current_weather(location, report)]

bad_conditions == {"rain", "storm", "thunderstorm", "snow", "extreme", "heavy"}

\* isinstance(v, (int, float))
IsNumber(v) == v \in Int

\* is_good_weather with the range of the comment: 15 to 30 degrees
is_good_weather_comfortable(weather_data) ==
    IF "error" \in DOMAIN weather_data THEN TRUE
    ELSE IF \/ Search(bad_conditions, Lower(Get(weather_data, "conditions", "")))
            \/ Search(bad_conditions, Lower(Get(weather_data, "main", "")))
    THEN FALSE
    ELSE IF /\ IsNumber(Get(weather_data, "temperature", Deci(25)))
            /\ \/ Get(weather_data, "temperature", Deci(25)) < Deci(15)
               \/ Get(weather_data, "temperature", Deci(25)) > Deci(30)
    THEN FALSE
    ELSE IF /\ IsNumber(Get(weather_data, "wind_speed", 0))
            /\ Get(weather_data, "wind_speed", 0) > Deci(20)
    THEN FALSE
    ELSE TRUE

\* WeatherTool.is_good_weather
is_good_weather(weather_data) ==
    IF "error" \in DOMAIN weather_data THEN TRUE
    ELSE IF \/ Search(bad_conditions, Lower(Get(weather_data, "conditions", "")))
            \/ Search(bad_conditions, Lower(Get(weather_data, "main", "")))
    THEN FALSE
    ELSE IF /\ IsNumber(Get(weather_data, "temperature", Deci(25)))
            /\ \/ Get(weather_data, "temperature", Deci(25)) < Deci(10)
               \/ Get(weather_data, "temperature", Deci(25)) > Deci(35)
    THEN FALSE
    ELSE IF /\ IsNumber(Get(weather_data, "wind_speed", 0))
            /\ Get(weather_data, "wind_speed", 0) > Deci(20)
    THEN FALSE
    ELSE TRUE

-----------------------------------------------------------------------------
(* tools/document_tool.py: DocumentTool. The upload directory is a function from
   paths to the text of the file; the time of an upload is left out of a document. *)

\* str.endswith
EndsWith(text, suffix) ==
    Len(text) >= Len(suffix) /\ SubSeq(text, Len(text) - Len(suffix) + 1, Len(text)) = suffix

Whitespace == {" ", "\n", "\t"}

\* str.strip()
RECURSIVE LStrip(_)
LStrip(text) ==
    IF Len(text) > 0 /\ SubSeq(text, 1, 1) \in Whitespace
    THEN LStrip(SubSeq(text, 2, Len(text)))
    ELSE text

RECURSIVE RStrip(_)
RStrip(text) ==
    IF Len(text) > 0 /\ SubSeq(text, Len(text), Len(text)) \in Whitespace
    THEN RStrip(SubSeq(text, 1, Len(text) - 1))
    ELSE text

Strip(text) == RStrip(LStrip(text))

\* len(text.split()): the runs of characters that are not whitespace
RECURSIVE WordCount(_, _)
WordCount(text, in_word) ==
    IF Len(text) = 0 THEN 0
    ELSE IF SubSeq(text, 1, 1) \in Whitespace
    THEN WordCount(SubSeq(text, 2, Len(text)), FALSE)
    ELSE (IF in_word THEN 0 ELSE 1) + WordCount(SubSeq(text, 2, Len(text)), TRUE)

\* set(re.findall(r'\b\w+\b', text)); word is the run of \w read so far
RECURSIVE FindWords(_, _)
FindWords(text, word) ==
    IF Len(text) = 0 THEN (IF word = "" THEN {} ELSE {word})
    ELSE IF IsWordChar(SubSeq(text, 1, 1))
    THEN FindWords(SubSeq(text, 2, Len(text)), word \o SubSeq(text, 1, 1))
    ELSE (IF word = "" THEN {} ELSE {word}) \cup FindWords(SubSeq(text, 2, Len(text)), "")

\* re.split(r'[.!?]+', text); piece is the sentence read so far, in_run says the
\* character before was one of . ! ?
RECURSIVE SplitSentences(_, _, _)
SplitSentences(text, piece, in_run) ==
    IF Len(text) = 0 THEN <<piece>>
    ELSE IF SubSeq(text, 1, 1) \in {".", "!", "?"}
    THEN IF in_run THEN SplitSentences(SubSeq(text, 2, Len(text)), "", TRUE)
         ELSE <<piece>> \o SplitSentences(SubSeq(text, 2, Len(text)), "", TRUE)
    ELSE SplitSentences(SubSeq(text, 2, Len(text)), piece \o SubSeq(text, 1, 1), FALSE)

\* the sentences of the text that contain a word of the question, stripped
RECURSIVE RelevantSentences(_, _)
RelevantSentences(sentences, question_words) ==
    IF Len(sentences) = 0 THEN << >>
    ELSE (IF Search(question_words, Head(sentences))
          THEN <<Strip(Head(sentences))>> ELSE << >>)
         \o RelevantSentences(Tail(sentences), question_words)

\* DocumentTool._extract_text on the file at file_path. readable says the file can be
\* opened and, for a PDF, parsed. [out, value]: the text, or the exception
_extract_text(files, file_path, filename, readable) ==
    IF EndsWith(Lower(filename), ".pdf")
    THEN IF readable /\ file_path \in DOMAIN files
         THEN [out |-> "return", value |-> Strip(files[file_path])]
         ELSE [out |-> "raise", value |-> "PDF extraction error"]
    ELSE IF EndsWith(Lower(filename), ".txt")
    THEN IF readable /\ file_path \in DOMAIN files
         THEN [out |-> "return", value |-> files[file_path]]
         ELSE [out |-> "raise", value |-> "TXT read error"]
    ELSE [out |-> "raise", value |-> "Unsupported file type: " \o filename]

\* every document of the collection gets the first id
FirstDocId(docs) == 1

\* doc_id = len(self.documents) + 1
NextDocId(docs) == Cardinality(DOMAIN docs) + 1

\* self.documents[doc_id] = {...}
StoreDocument(docs, doc_id, filename, file_path, text) ==
    [k \in (DOMAIN docs) \cup {doc_id} |->
        IF k = doc_id
        THEN [id |-> doc_id, filename |-> filename, file_path |-> file_path,
              text |-> text, word_count |-> WordCount(text, FALSE)]
        ELSE docs[k]]

\* text[:200] + "..." if len(text) > 200 else text
Preview(text) == IF Len(text) > 200 THEN SubSeq(text, 1, 200) \o "..." ELSE text

\* what process_document does with the text extracted: [out, documents, value]
ProcessExtracted(docs, file_path, filename, extracted) ==
    IF extracted.out = "raise"
    THEN [out |-> "return", documents |-> docs,
          value |-> [status |-> "error", message |-> extracted.value]]
    ELSE [out |-> "return",
          documents |-> StoreDocument(docs, NextDocId(docs), filename, file_path,
                                      extracted.value),
          value |-> [status |-> "success", document_id |-> NextDocId(docs),
                     filename |-> filename,
                     word_count |-> WordCount(extracted.value, FALSE),
                     preview |-> Preview(extracted.value)]]

\* DocumentTool.process_document
process_document(docs, files, file_path, filename, readable) ==
    ProcessExtracted(docs, file_path, filename,
                     _extract_text(files, file_path, filename, readable))

\* what process_document_async does once the file is written: [out, documents, value]
AsyncExtracted(docs, file_path, filename, extracted) ==
    IF extracted.out = "raise"
    THEN [out |-> "return", documents |-> docs,
          value |-> [status |-> "error", message |-> extracted.value]]
    ELSE [out |-> "return",
          documents |-> StoreDocument(docs, NextDocId(docs), filename, file_path,
                                      extracted.value),
          value |-> [status |-> "success", document_id |-> NextDocId(docs),
                     filename |-> filename,
                     word_count |-> WordCount(extracted.value, FALSE),
                     message |-> "Document '" \o filename \o "' processed successfully"]]

\* search_web letting the failure of the request through
search_web_unguarded(query, web) ==
    IF web.status = "fail"
    THEN [out |-> "raise", value |-> [exception |-> "RequestException"]]
    ELSE IF web.status = "abstract"
    THEN [out |-> "return",
          value |-> [source |-> "web_search", answer |-> web.text, confidence |-> 70,
                     search_query |-> query]]
    ELSE IF web.status = "related"
    THEN [out |-> "return",
          value |-> [source |-> "web_search", answer |-> web.text, confidence |-> 60,
                     search_query |-> query]]
    ELSE [out |-> "return",
          value |-> [source |-> "web_search",
                     answer |-> "No specific information found online for your query.",
                     confidence |-> 20, search_query |-> query]]

\* DocumentTool.search_web. web is what the search provider answers: status
\* "abstract" (an AbstractText), "related" (a related topic with a Text), "nothing",
\* or "fail" (the request or the JSON raises)
search_web(query, web) ==
    IF web.status = "fail"
    THEN [out |-> "return",
          value |-> [source |-> "error", answer |-> "Web search error",
                     confidence |-> 0, search_query |-> query]]
    ELSE IF web.status = "abstract"
    THEN [out |-> "return",
          value |-> [source |-> "web_search", answer |-> web.text, confidence |-> 70,
                     search_query |-> query]]
    ELSE IF web.status = "related"
    THEN [out |-> "return",
          value |-> [source |-> "web_search", answer |-> web.text, confidence |-> 60,
                     search_query |-> query]]
    ELSE [out |-> "return",
          value |-> [source |-> "web_search",
                     answer |-> "No specific information found online for your query.",
                     confidence |-> 20, search_query |-> query]]

\* the uploads and the questions of the model, and the texts a document can hold
UploadStamp == "20240102_090000"
UploadNames == {"notes.txt", "cv.pdf", "memo.docx", "data.csv", ""}
UploadContent == "Ana leads the team. Raj is on leave! "
AsyncNames == {"notes.txt", "memo.docx"}
AsyncContent == "Budget 2024? Team budget is set."
Questions == {"who leads the team", "budget", "", "weather in paris"}
StoredTexts == {UploadContent, Strip(UploadContent), AsyncContent, Strip(AsyncContent), ""}

\* set(re.findall(r'\b\w+\b', text.lower())) of every question and every text
WordsOf == [text \in Questions \cup StoredTexts |-> FindWords(Lower(text), "")]

\* the documents query_document searches, by id, in the order of the dictionary
DocumentsToSearch(docs, document_id) ==
    IF document_id = 0 THEN DOMAIN docs ELSE {document_id}

\* the words of the question found among the words of the document
Overlap(question, text) == Cardinality(WordsOf[question] \cap WordsOf[text])

\* score of a document, in hundredths: overlap / len(question_words)
Score(question, text) ==
    IF WordsOf[question] = {} THEN 0
    ELSE (100 * Overlap(question, text)) \div Cardinality(WordsOf[question])

\* the document the loop keeps: the first, in id order, of the highest score above 0
BestMatch(docs, ids, question) ==
    LET best == {k \in ids :
                    /\ Score(question, docs[k].text) > 0
                    /\ \A j \in ids : Score(question, docs[j].text) <= Score(question, docs[k].text)}
    IN IF best = {} THEN 0 ELSE Min(best)

\* relevant_sentences[:3] joined, or the fixed answer when there is none
FirstThree(found) == Join(SubSeq(found, 1, Min({3, Len(found)})))

DocumentAnswer(question, text) ==
    IF FirstThree(RelevantSentences(SplitSentences(Lower(text), "", FALSE),
                                    WordsOf[question])) = ""
    THEN "The document contains relevant information but no specific answer was found."
    ELSE FirstThree(RelevantSentences(SplitSentences(Lower(text), "", FALSE),
                                      WordsOf[question]))

\* the answer for every question and every text
AnswerOf ==
    [question \in Questions |-> [text \in StoredTexts |-> DocumentAnswer(question, text)]]

\* the end of query_document: best is the id of the best match, 0 when no document
\* scored; a score above 0.3 answers from the document, else the web is searched
QueryBest(docs, question, best, web) ==
    IF best # 0 /\ 10 * Overlap(question, docs[best].text) >
                       3 * Cardinality(WordsOf[question])
    THEN [out |-> "return",
          value |-> [source |-> "document",
                     answer |-> AnswerOf[question][docs[best].text],
                     confidence |-> Min({Score(question, docs[best].text), 95}),
                     document_info |-> [id |-> docs[best].id,
                                        filename |-> docs[best].filename]]]
    ELSE search_web(question, web)

\* DocumentTool.query_document; document_id 0 stands for None
query_document(docs, question, document_id, web) ==
    IF DOMAIN docs = {}
    THEN [out |-> "return",
          value |-> [source |-> "error",
                     answer |-> "No documents uploaded yet. Please upload a document first.",
                     confidence |-> 0]]
    ELSE IF document_id # 0 /\ document_id \notin DOMAIN docs
    THEN [out |-> "return",
          value |-> [source |-> "error",
                     answer |-> "Document ID " \o ToString(document_id) \o " not found.",
                     confidence |-> 0]]
    ELSE QueryBest(docs, question,
                   BestMatch(docs, DocumentsToSearch(docs, document_id), question), web)

\* os.path.splitext(filename)[1]: from the last dot on, if a character precedes it
Extension(filename) ==
    LET dots == {i \in 2..Len(filename) : SubSeq(filename, i, i) = "."}
    IN IF dots = {} THEN ""
       ELSE SubSeq(filename, CHOOSE i \in dots : \A j \in dots : j <= i, Len(filename))

allowed_extensions == {".pdf", ".txt", ".docx"}

\* the path the upload is saved at; stamp is the second of the clock
UploadPath(stamp, filename) == "uploads/" \o stamp \o "_" \o filename

\* open(file_path, "wb").write(content)
WriteFile(files, file_path, content) ==
    [f \in (DOMAIN files) \cup {file_path} |-> IF f = file_path THEN content ELSE files[f]]

\* POST /api/upload. [out, documents, files, value]; writable says the file can be
\* saved, readable that it can be read back
upload_document(docs, files, filename, content, stamp, writable, readable) ==
    IF filename = ""
    THEN [out |-> "raise", documents |-> docs, files |-> files,
          value |-> [exception |-> "HTTPException", status_code |-> 400]]
    ELSE IF Lower(Extension(filename)) \notin allowed_extensions
    THEN [out |-> "raise", documents |-> docs, files |-> files,
          value |-> [exception |-> "HTTPException", status_code |-> 400]]
    ELSE IF ~writable
    THEN [out |-> "raise", documents |-> docs, files |-> files,
          value |-> [exception |-> "HTTPException", status_code |-> 500]]
    ELSE [out |-> "return",
          files |-> WriteFile(files, UploadPath(stamp, filename), content),
          documents |-> process_document(docs,
                                         WriteFile(files, UploadPath(stamp, filename), content),
                                         UploadPath(stamp, filename), filename,
                                         readable).documents,
          value |-> [status |-> "success", filename |-> filename,
                     file_path |-> UploadPath(stamp, filename),
                     message |-> "Document uploaded and processed successfully",
                     document_info |->
                         process_document(docs,
                                          WriteFile(files, UploadPath(stamp, filename),
                                                    content),
                                          UploadPath(stamp, filename), filename,
                                          readable).value]]

-----------------------------------------------------------------------------
(* The operations *)

Init ==
    /\ meetings = << >>
    /\ conversations = << >>
    /\ today = StartDay
    /\ call = Idle
    /\ noted = [call |-> Idle, day |-> StartDay]
    /\ documents = << >>
    /\ uploads = << >>
    /\ sessions = 0
    /\ tasks = [t \in Tasks |-> NoTask]

\* POST /api/chat: OrchestratorAgent.process
Process(message, conversation_id, db_ok, fault) ==
    /\ call.op = "idle"
    /\ Len(conversations) < MaxLog
    /\ fault \in {"add", "commit", "rollback"} => db_ok
    /\ \E r \in {process(message, conversation_id, meetings, conversations, today,
                        db_ok, fault = "handler", fault = "store",
                        IF fault \in {"add", "commit", "rollback"} THEN fault
                        ELSE "none")} :
          /\ conversations' = r.log
          /\ call' = [op |-> "process", message |-> message,
                      conversation_id |-> conversation_id, db_ok |-> db_ok,
                      fault |-> fault, out |-> r.out, value |-> r.value,
                      agent_type |-> r.agent_type, queries |-> r.queries]
    /\ UNCHANGED <<meetings, today, noted, aux>>

\* POST /api/schedule: OrchestratorAgent.schedule_meeting
ScheduleMeeting(location, date, title, db_ok, fault) ==
    /\ call.op = "idle"
    /\ fault \in {"none", "handler", "store"}
    /\ \E r \in {schedule_meeting(location, date, title, meetings, today, db_ok,
                                 fault = "handler", fault = "store")} :
          call' = [op |-> "schedule_meeting",
                   message |-> ScheduleMessage(location, date, title),
                   conversation_id |-> None, db_ok |-> db_ok, fault |-> fault,
                   out |-> r.out, value |-> r.value, agent_type |-> "scheduling",
                   queries |-> r.queries]
    /\ UNCHANGED <<meetings, conversations, today, noted, aux>>

\* GET /api/query: DatabaseTool.natural_language_query
NaturalLanguageQuery(query, fault) ==
    /\ call.op = "idle"
    /\ fault \in {"none", "store"}
    /\ \E r \in {natural_language_query(query, meetings, today, TRUE, fault = "store")} :
          call' = [op |-> "natural_language_query", message |-> query,
                   conversation_id |-> None, db_ok |-> TRUE, fault |-> fault,
                   out |-> r.out, value |-> r.value, agent_type |-> "database",
                   queries |-> r.queries]
    /\ UNCHANGED <<meetings, conversations, today, noted, aux>>

\* DatabaseAgent.process_query
ProcessQuery(query, db_ok, fault) ==
    /\ call.op = "idle"
    /\ fault \in {"none", "store"}
    /\ \E r \in {process_query(query, meetings, today, db_ok, fault = "store")} :
          call' = [op |-> "process_query", message |-> query,
                   conversation_id |-> None, db_ok |-> db_ok, fault |-> fault,
                   out |-> r.out, value |-> r.value, agent_type |-> "database",
                   queries |-> r.queries]
    /\ UNCHANGED <<meetings, conversations, today, noted, aux>>

\* DatabaseTool.create_meeting
CreateMeeting(meeting_data, fault) ==
    /\ call.op = "idle"
    /\ fault \in WriteFaults
    /\ \E r \in {create_meeting(meetings, meeting_data, fault)} :
          /\ meetings' = r.rows
          /\ call' = [op |-> "create_meeting", message |-> meeting_data.title,
                      conversation_id |-> None, db_ok |-> TRUE, fault |-> fault,
                      out |-> r.out, value |-> r.value, agent_type |-> None,
                      queries |-> 0, before |-> meetings]
    /\ UNCHANGED <<conversations, today, noted, aux>>

\* GET /api/meetings: DatabaseTool.get_meetings
GetMeetings(date, location, fault) ==
    /\ call.op = "idle"
    /\ fault \in {"none", "store"}
    /\ \E r \in {get_meetings(meetings, today, date, location, fault = "store")} :
          call' = [op |-> "get_meetings", message |-> "", date |-> date,
                   location |-> location, conversation_id |-> None, db_ok |-> TRUE,
                   fault |-> fault, out |-> r.out, value |-> r.value,
                   agent_type |-> None, queries |-> r.queries]
    /\ UNCHANGED <<meetings, conversations, today, noted, aux>>

\* DatabaseAgent.get_meetings
AgentGetMeetings(date, fault) ==
    /\ call.op = "idle"
    /\ fault \in {"none", "store"}
    /\ \E r \in {agent_get_meetings(meetings, today, date, fault = "store")} :
          call' = [op |-> "agent_get_meetings", message |-> "", date |-> date,
                   location |-> None, conversation_id |-> None, db_ok |-> TRUE,
                   fault |-> fault, out |-> r.out, value |-> r.value,
                   agent_type |-> None, queries |-> r.queries]
    /\ UNCHANGED <<meetings, conversations, today, noted, aux>>

\* SchedulingAgent.schedule_meeting
AgentScheduleMeeting(location, date, title, weather, fault) ==
    /\ call.op = "idle"
    /\ fault \in ScheduleFaults
    /\ \E r \in {agent_schedule_meeting(meetings, today, location, date, title, weather,
                                       fault)} :
          /\ meetings' = r.rows
          /\ sessions' = IF r.session = "open" THEN sessions + 1 ELSE sessions
          /\ call' = [op |-> "agent_schedule_meeting", message |-> title, date |-> date,
                      location |-> location, conversation_id |-> None, db_ok |-> TRUE,
                      fault |-> fault, out |-> r.out, value |-> r.value,
                      agent_type |-> None, queries |-> 0, weather |-> weather,
                      session |-> r.session, before |-> meetings]
    /\ UNCHANGED <<conversations, today, noted, documents, uploads, tasks>>

\* the caller takes the result; the next request can start
Return ==
    /\ call.op # "idle"
    /\ call' = Idle
    /\ UNCHANGED <<meetings, conversations, today, noted, aux>>

DoProcess ==
    \E message \in Messages, conversation_id \in ConversationIds,
       db_ok \in BOOLEAN, fault \in Faults :
        Process(message, conversation_id, db_ok, fault)

DoScheduleMeeting ==
    \E location \in ScheduleLocations, date \in ScheduleDates,
       title \in ScheduleTitles, db_ok \in BOOLEAN, fault \in Faults :
        ScheduleMeeting(location, date, title, db_ok, fault)

DoNaturalLanguageQuery ==
    \E query \in Messages, fault \in Faults : NaturalLanguageQuery(query, fault)

DoProcessQuery ==
    \E query \in Messages, db_ok \in BOOLEAN, fault \in Faults :
        ProcessQuery(query, db_ok, fault)

DoGetMeetings ==
    \E date \in ListingDates, location \in ListingLocations, fault \in Faults :
        GetMeetings(date, location, fault)

DoAgentGetMeetings ==
    \E date \in ListingDates, fault \in Faults : AgentGetMeetings(date, fault)

DoAgentScheduleMeeting ==
    /\ Len(meetings) < MaxMeetings
    /\ sessions < MaxSessions
    /\ \E date \in AgentScheduleDates, weather \in Weathers, fault \in ScheduleFaults :
           AgentScheduleMeeting("London", date, "Team Meeting", weather, fault)

DoCreateMeeting ==
    /\ Len(meetings) < MaxMeetings
    /\ \E meeting_data \in MeetingData, fault \in WriteFaults :
           CreateMeeting(meeting_data, fault)

(* The chat service: messages routed by the orchestrator *)

RouteCreateMeeting ==
    /\ Len(meetings) < RouteMeetings
    /\ \E meeting_data \in MeetingData : CreateMeeting(meeting_data, "none")

Next ==
    \/ DoProcess
    \/ DoScheduleMeeting
    \/ RouteCreateMeeting
    \/ Return

Spec == Init /\ [][Next]_vars

(* The query service: natural-language queries on a small table *)

NextQuery ==
    \/ DoNaturalLanguageQuery
    \/ DoProcessQuery
    \/ DoGetMeetings
    \/ DoAgentGetMeetings
    \/ DoAgentScheduleMeeting
    \/ DoCreateMeeting
    \/ Return

SpecQuery == Init /\ [][NextQuery]_vars

(* A table of more rows than the default limit, queried with a few fixed texts *)

BulkCreateMeeting ==
    /\ Len(meetings) < BulkMeetings
    /\ \E meeting_data \in BulkData : CreateMeeting(meeting_data, "none")

BulkNaturalLanguageQuery ==
    \E query \in BulkQueries, fault \in Faults : NaturalLanguageQuery(query, fault)

BulkProcessQuery ==
    \E query \in BulkQueries, fault \in Faults : ProcessQuery(query, TRUE, fault)

NextBulk ==
    \/ BulkCreateMeeting
    \/ BulkNaturalLanguageQuery
    \/ BulkProcessQuery
    \/ Return

SpecBulk == Init /\ [][NextBulk]_vars


(* Repeated requests: the caller keeps one result and asks again, other requests
   and the passing of a day in between *)

RepeatMessages ==
    {"show meetings today", "show team meetings tomorrow", "list appointment",
     "how many team meetings tomorrow", "asdf qwerty"}

\* the caller keeps the result of the call
Remember ==
    /\ call.op \in {"process", "natural_language_query", "process_query"}
    /\ noted.call.op = "idle"
    /\ noted' = [call |-> call, day |-> today]
    /\ UNCHANGED <<meetings, conversations, today, call, aux>>

\* datetime.now() passes midnight
Tick ==
    /\ call.op = "idle"
    /\ today < MaxDay
    /\ today' = today + 1
    /\ UNCHANGED <<meetings, conversations, call, noted, aux>>

RepeatProcess ==
    \E message \in RepeatMessages, db_ok \in BOOLEAN, fault \in {"none", "store"} :
        Process(message, None, db_ok, fault)

RepeatNaturalLanguageQuery ==
    \E query \in RepeatMessages, fault \in {"none", "store"} :
        NaturalLanguageQuery(query, fault)

RepeatProcessQuery ==
    \E query \in RepeatMessages, fault \in {"none", "store"} :
        ProcessQuery(query, TRUE, fault)

NextRepeat ==
    \/ RepeatProcess
    \/ RepeatNaturalLanguageQuery
    \/ RepeatProcessQuery
    \/ RouteCreateMeeting
    \/ Remember
    \/ Tick
    \/ Return

SpecRepeat == Init /\ [][NextRepeat]_vars

(* The scheduling agent alone: calls of schedule_meeting one after another *)

ScheduleAgentScheduleMeeting ==
    /\ Len(meetings) <= MaxMeetings
    /\ sessions < MaxSessions
    /\ \E location \in ScheduleLocations, date \in AgentScheduleDates,
          title \in ScheduleTitles, weather \in Weathers, fault \in ScheduleFaults :
           AgentScheduleMeeting(location, date, title, weather, fault)

NextSchedule ==
    \/ ScheduleAgentScheduleMeeting
    \/ Tick
    \/ Return

SpecSchedule == Init /\ [][NextSchedule]_vars

(* Two calls of SchedulingAgent.schedule_meeting in progress at once, each on its
   own session. A call touches the meetings table twice: the query of
   _check_existing_meeting, and the commit of the row it adds. *)

\* schedule_meeting up to the existence check: the weather is looked up, the session
\* is opened and the table is queried
ScheduleCheck(t, location, date, title, weather) ==
    /\ tasks[t].pc = "idle"
    /\ weather # "error"
    /\ tasks' = [tasks EXCEPT ![t] =
                    [pc |-> "checked", location |-> location, date |-> date,
                     title |-> title, weather |-> weather, day |-> today,
                     existing |-> _check_existing_meeting(meetings, today, date,
                                                          location, title)]]
    /\ sessions' = sessions + 1
    /\ UNCHANGED <<meetings, conversations, today, call, noted, documents, uploads>>

\* schedule_meeting from the existence check on: exists, or the row is added and
\* committed in good weather, or cancelled; the session is closed
ScheduleCommit(t) ==
    /\ tasks[t].pc = "checked"
    /\ meetings' = IF ~tasks[t].existing.found /\ tasks[t].weather = "good"
                   THEN Append(meetings,
                               ScheduledMeeting(meetings, tasks[t].day, tasks[t].location,
                                                tasks[t].date, tasks[t].title))
                   ELSE meetings
    /\ tasks' = [tasks EXCEPT ![t] =
                    [pc |-> "done", location |-> tasks[t].location,
                     date |-> tasks[t].date, title |-> tasks[t].title,
                     value |-> IF tasks[t].existing.found
                               THEN [status |-> "exists",
                                     meeting_id |-> tasks[t].existing.id,
                                     weather_decision |-> tasks[t].weather]
                               ELSE IF tasks[t].weather = "good"
                               THEN [status |-> "scheduled",
                                     meeting_id |-> Len(meetings) + 1,
                                     weather_decision |-> "good"]
                               ELSE [status |-> "cancelled",
                                     weather_decision |-> "bad"]]]
    /\ sessions' = sessions - 1
    /\ UNCHANGED <<conversations, today, call, noted, documents, uploads>>

\* the caller of the call takes the result
ScheduleReturn(t) ==
    /\ tasks[t].pc = "done"
    /\ tasks' = [tasks EXCEPT ![t] = NoTask]
    /\ UNCHANGED <<meetings, conversations, today, call, noted, documents, uploads, sessions>>

RaceCheck ==
    /\ Len(meetings) < MaxMeetings
    /\ \E t \in Tasks, location \in ScheduleLocations, date \in AgentScheduleDates,
          title \in ScheduleTitles, weather \in {"good", "bad"} :
           ScheduleCheck(t, location, date, title, weather)

RaceCommit == \E t \in Tasks : ScheduleCommit(t)

RaceReturn == \E t \in Tasks : ScheduleReturn(t)

NextRace ==
    \/ RaceCheck
    \/ RaceCommit
    \/ RaceReturn

SpecRace == Init /\ [][NextRace]_vars

(* The tools: the weather tool *)

ApiKeys == {None, PlaceholderKey, "0123456789abcdef"}
WeatherLocations == {"London", "New Delhi", "Atlantis"}
WeatherDates == {None, "today", "tomorrow", "yesterday", "2024-01-04"}
Geocodes == {"found", "empty", "fail"}

\* what the provider reports: the temperature and the wind speed in tenths
ReportTemps == {Deci(10) - 1, Deci(10), Deci(22), Deci(35), Deci(35) + 1}
ReportWinds == {Deci(5), Deci(20), Deci(20) + 1}
ReportTexts ==
    {[description |-> "clear sky", main |-> "Clear"],
     [description |-> "light rain", main |-> "Rain"],
     [description |-> "heavy intensity drizzle", main |-> "Drizzle"],
     [description |-> "mist", main |-> "Mist"],
     [description |-> "thunderstorm", main |-> "Thunderstorm"],
     [description |-> "Snow", main |-> "Snow"]}

WeatherReports ==
    {[status |-> "ok", temp |-> t, wind_speed |-> w, description |-> c.description,
      main |-> c.main] : t \in ReportTemps, w \in ReportWinds, c \in ReportTexts}

\* a provider that does not answer, or answers without the keys
FailedReports == {[status |-> "fail"], [status |-> "malformed"]}

\* the record get_weather returns when its except block is reached
WeatherErrors ==
    {[error |-> "Weather API error: timeout", location |-> l] : l \in WeatherLocations}

\* GET /api/weather/{location}: WeatherTool.get_weather
GetWeather(api_key, location, date, geocode, report) ==
    /\ call.op = "idle"
    /\ \E r \in {get_weather(api_key, location, date, geocode, report)} :
          call' = [op |-> "get_weather", api_key |-> api_key, location |-> location,
                   date |-> date, geocode |-> geocode, report |-> report,
                   out |-> r.out, value |-> r.value]
    /\ UNCHANGED <<meetings, conversations, today, noted, aux>>

\* WeatherTool.is_good_weather
IsGoodWeather(weather_data) ==
    /\ call.op = "idle"
    /\ call' = [op |-> "is_good_weather", weather_data |-> weather_data,
                out |-> "return", value |-> is_good_weather(weather_data)]
    /\ UNCHANGED <<meetings, conversations, today, noted, aux>>

DoGetWeather ==
    \E api_key \in ApiKeys, location \in WeatherLocations, date \in WeatherDates,
       geocode \in Geocodes :
        \/ \E report \in FailedReports : GetWeather(api_key, location, date, geocode, report)
        \/ \E report \in WeatherReports :
               /\ report.temp = Deci(22) /\ report.wind_speed = Deci(5)
               /\ GetWeather(api_key, location, date, geocode, report)

\* the records is_good_weather is asked about: what get_weather returns, from the
\* provider, from the mock data or from the simulation, and its error record
DoIsGoodWeather ==
    \/ \E location \in WeatherLocations, date \in WeatherDates :
           \/ \E report \in WeatherReports :
                  IsGoodWeather(ProviderRecord(location, "today", report))
           \/ IsGoodWeather(_get_mock_weather(location, date))
           \/ IsGoodWeather(_get_historical_weather(location))
    \/ \E weather_data \in WeatherErrors : IsGoodWeather(weather_data)

NextWeather ==
    \/ DoGetWeather
    \/ DoIsGoodWeather
    \/ Return

SpecWeather == Init /\ [][NextWeather]_vars

(* The tools: the document tool and the upload endpoint *)

MaxDocuments == 2   \* documents in the collection

DocumentIds == {0, 1, 3}
WebAnswers ==
    {[status |-> "fail"], [status |-> "nothing"],
     [status |-> "abstract", text |-> "Paris is the capital of France."],
     [status |-> "related", text |-> "Paris, Texas"]}

\* calls of the document tool that are in progress
InProgress == {t \in Tasks : tasks[t].pc # "idle"}

\* POST /api/upload
UploadDocument(filename, content, stamp, writable, readable) ==
    /\ call.op = "idle"
    /\ \E r \in {upload_document(documents, uploads, filename, content, stamp, writable,
                                readable)} :
          /\ documents' = r.documents
          /\ uploads' = r.files
          /\ call' = [op |-> "upload_document", filename |-> filename,
                      writable |-> writable, readable |-> readable,
                      out |-> r.out, value |-> r.value, before |-> documents]
    /\ UNCHANGED <<meetings, conversations, today, noted, sessions, tasks>>

\* DocumentTool.process_document on a file of the upload directory
ProcessDocument(file_path, filename, readable) ==
    /\ call.op = "idle"
    /\ \E r \in {process_document(documents, uploads, file_path, filename, readable)} :
          /\ documents' = r.documents
          /\ call' = [op |-> "process_document", filename |-> filename,
                      readable |-> readable, out |-> r.out, value |-> r.value,
                      before |-> documents]
    /\ UNCHANGED <<meetings, conversations, today, noted, uploads, sessions, tasks>>

\* DocumentTool.process_document_async up to its first await: the file is opened
\* for writing, which creates it or empties it
AsyncOpen(t, filename, content, stamp, opens) ==
    /\ call.op = "idle"
    /\ tasks[t].pc = "idle"
    /\ uploads' = IF opens THEN WriteFile(uploads, UploadPath(stamp, filename), "") ELSE uploads
    /\ tasks' = [tasks EXCEPT ![t] =
                    IF opens
                    THEN [pc |-> "opened", filename |-> filename, content |-> content,
                          file_path |-> UploadPath(stamp, filename)]
                    ELSE [pc |-> "done", filename |-> filename,
                          value |-> [status |-> "error", message |-> "open failed"]]]
    /\ UNCHANGED <<meetings, conversations, today, call, noted, documents, sessions>>

\* process_document_async at await f.write(file_content)
AsyncWrite(t, writes) ==
    /\ call.op = "idle"
    /\ tasks[t].pc = "opened"
    /\ uploads' = IF writes THEN WriteFile(uploads, tasks[t].file_path, tasks[t].content)
                ELSE uploads
    /\ tasks' = [tasks EXCEPT ![t] =
                    IF writes
                    THEN [pc |-> "written", filename |-> tasks[t].filename,
                          file_path |-> tasks[t].file_path]
                    ELSE [pc |-> "done", filename |-> tasks[t].filename,
                          value |-> [status |-> "error", message |-> "write failed"]]]
    /\ UNCHANGED <<meetings, conversations, today, call, noted, documents, sessions>>

\* process_document_async after its last await: the text is extracted from the file,
\* the document gets its id and is stored
AsyncStore(t, readable) ==
    /\ call.op = "idle"
    /\ tasks[t].pc = "written"
    /\ \E r \in {AsyncExtracted(documents, tasks[t].file_path, tasks[t].filename,
                               _extract_text(uploads, tasks[t].file_path,
                                             tasks[t].filename, readable))} :
          /\ documents' = r.documents
          /\ tasks' = [tasks EXCEPT ![t] =
                          [pc |-> "done", filename |-> tasks[t].filename,
                           value |-> r.value]]
    /\ UNCHANGED <<meetings, conversations, today, call, noted, uploads, sessions>>

\* the caller of process_document_async takes the result
AsyncReturn(t) ==
    /\ call.op = "idle"
    /\ tasks[t].pc = "done"
    /\ tasks' = [tasks EXCEPT ![t] = NoTask]
    /\ UNCHANGED <<meetings, conversations, today, call, noted, documents, uploads, sessions>>

\* DocumentTool.query_document
QueryDocument(question, document_id, web) ==
    /\ call.op = "idle"
    /\ \E r \in {query_document(documents, question, document_id, web)} :
          call' = [op |-> "query_document", question |-> question,
                   document_id |-> document_id, web |-> web,
                   out |-> r.out, value |-> r.value]
    /\ UNCHANGED <<meetings, conversations, today, noted, aux>>

\* DocumentTool.search_web
SearchWeb(query, web) ==
    /\ call.op = "idle"
    /\ \E r \in {search_web(query, web)} :
          call' = [op |-> "search_web", question |-> query, web |-> web,
                   out |-> r.out, value |-> r.value]
    /\ UNCHANGED <<meetings, conversations, today, noted, aux>>

\* room in the collection for the calls in progress and one more
HasRoom == Cardinality(DOMAIN documents) + Cardinality(InProgress) < MaxDocuments

DoUploadDocument ==
    /\ HasRoom
    /\ \E filename \in UploadNames, writable \in BOOLEAN, readable \in BOOLEAN :
           UploadDocument(filename, UploadContent, UploadStamp, writable, readable)

DoProcessDocument ==
    /\ HasRoom
    /\ \E file_path \in DOMAIN uploads, filename \in UploadNames \ {""},
          readable \in BOOLEAN :
           /\ file_path = UploadPath(UploadStamp, filename)
           /\ ProcessDocument(file_path, filename, readable)

DoAsyncOpen ==
    /\ HasRoom
    /\ \E t \in Tasks, filename \in AsyncNames, opens \in BOOLEAN :
           AsyncOpen(t, filename, AsyncContent, UploadStamp, opens)

DoAsyncWrite == \E t \in Tasks, writes \in BOOLEAN : AsyncWrite(t, writes)

DoAsyncStore == \E t \in Tasks, readable \in BOOLEAN : AsyncStore(t, readable)

DoAsyncReturn == \E t \in Tasks : AsyncReturn(t)

\* The calls that only read the collection are made between the asynchronous calls:
\* what they return depends on the collection alone.
DoQueryDocument ==
    /\ InProgress = {}
    /\ \E question \in Questions, document_id \in DocumentIds, web \in WebAnswers :
           QueryDocument(question, document_id, web)

DoSearchWeb ==
    /\ InProgress = {}
    /\ \E query \in Questions, web \in WebAnswers : SearchWeb(query, web)

\* the weather tool behind a provider that fails
FailingGetWeather ==
    /\ InProgress = {}
    /\ \E location \in WeatherLocations, date \in WeatherDates, geocode \in Geocodes,
          report \in FailedReports :
           GetWeather("0123456789abcdef", location, date, geocode, report)

NextDocuments ==
    \/ DoUploadDocument
    \/ DoProcessDocument
    \/ DoAsyncOpen
    \/ DoAsyncWrite
    \/ DoAsyncStore
    \/ DoAsyncReturn
    \/ DoQueryDocument
    \/ DoSearchWeb
    \/ FailingGetWeather
    \/ Return

SpecDocuments == Init /\ [][NextDocuments]_vars

-----------------------------------------------------------------------------
(* Properties *)

\* the pattern set of the named intent has a pattern found in the text
IntentMatches(agent, text) ==
    \E i \in 1..Len(decision_patterns) :
        /\ decision_patterns[i].agent = agent
        /\ PatternSetMatches(decision_patterns[i], text)

\* the intent a message is to be given: the first of weather, document, scheduling,
\* database whose pattern set matches
ExpectedIntent(message) ==
    IF IntentMatches("weather", Lower(message)) THEN "weather"
    ELSE IF IntentMatches("document", Lower(message)) THEN "document"
    ELSE IF IntentMatches("scheduling", Lower(message)) THEN "scheduling"
    ELSE IF IntentMatches("database", Lower(message)) THEN "database"
    ELSE "unknown"

\* the agent tag of the handler of an intent
HandlerOf(intent) == IF intent = "unknown" THEN "general" ELSE intent

NoKeyword(message) ==
    \A agent \in {"weather", "document", "scheduling", "database"} :
        ~IntentMatches(agent, Lower(message))

\* C1: process hands every message to the handler of the first intent, in the order
\* weather, document, scheduling, database, that has a pattern matching the
\* message, and to the general handler when no intent has one.
C1_FirstMatchingIntentHandles ==
    call.op = "process" =>
        /\ call.agent_type = ExpectedIntent(call.message)
        /\ call.value.agent \in {HandlerOf(ExpectedIntent(call.message)), "error"}
        /\ call.value.agent = "error" => call.fault \in {"handler", "rollback"}

C1_Witness ==
    /\ call.op = "process"
    /\ IntentMatches("scheduling", Lower(call.message))
    /\ IntentMatches("database", Lower(call.message))
    /\ call.agent_type = "scheduling"
    /\ call.value.agent = "scheduling"

\* C2: the message "schedule a team review meeting tomorrow" is classified as
\* scheduling.
C2_TieBreakIsScheduling ==
    (call.op = "process" /\ call.message = "schedule a team review meeting tomorrow")
        => call.agent_type = "scheduling"

\* C3: a message with no recognizable keyword, the empty and the whitespace-only
\* message included, is routed as unknown, gets a result of confidence 0, and no
\* query is made on the meetings table for it.
C3_NoKeywordIsUnknown ==
    (call.op = "process" /\ NoKeyword(call.message)) =>
        /\ call.agent_type = "unknown"
        /\ call.out = "return"
        /\ call.value.confidence = 0
        /\ call.value.agent \in {"general", "error"}
        /\ call.queries = 0

C3_Witness ==
    /\ call.op = "process"
    /\ call.message = "   "
    /\ call.db_ok
    /\ call.fault = "none"
    /\ call.value.agent_used = "unknown"
    /\ call.value.confidence = 0

\* C4: process and schedule_meeting never raise: whatever fails, the caller gets a
\* value.
C4_NeverRaises ==
    call.op \in {"process", "schedule_meeting"} => call.out = "return"

\* C5: every value process returns carries the intent used, the result, a
\* timestamp and the original message.
C5_FullEnvelope ==
    call.op = "process" =>
        {"agent_used", "response", "timestamp", "original_message"}
            \subseteq DOMAIN call.value

\* C6: a failure of the add, the commit or the rollback while the exchange is
\* recorded leaves the response of process as it is when the recording succeeds.
C6_LogFailureKeepsResponse ==
    (call.op = "process" /\ call.fault \in {"add", "commit", "rollback"}) =>
        call.value = process(call.message, call.conversation_id, meetings,
                             << >>, today, call.db_ok, FALSE, FALSE, "none").value

\* C7: when the meetings table fails during a natural-language query, the value
\* returned carries the error next to the query type and the extracted parameters.
C7_StoreFailureKeepsParameters ==
    (/\ call.op \in {"natural_language_query", "process_query"}
     /\ call.fault = "store"
     /\ call.queries > 0) =>
        /\ call.out = "return"
        /\ {"query_type", "parameters"} \subseteq DOMAIN call.value

\* the rows a get query of the tool, and of the agent, finds for the parameters
ToolGet(params) == _execute_get_meetings(params, meetings, FALSE).value.meetings
AgentGet(params) == _get_meetings_query(params, meetings, FALSE).value

IsAnswered(op, query_type) ==
    /\ call.op = op
    /\ "query_type" \in DOMAIN call.value
    /\ call.value.query_type = query_type

\* C8: the count query returns the number of meetings the get query returns for the
\* same parameters and table, and makes one query on the table to get it.
C8_CountIsLenOfGet ==
    /\ IsAnswered("natural_language_query", "count_meetings") =>
           /\ call.value.result.count = Len(ToolGet(call.value.parameters))
           /\ call.queries = 1
    /\ IsAnswered("process_query", "count_meetings") =>
           /\ call.value.result.count = Len(AgentGet(call.value.parameters))
           /\ call.queries = 1

C8_Witness ==
    /\ IsAnswered("natural_language_query", "count_meetings")
    /\ call.value.parameters.meeting_type = "team"
    /\ call.value.result.count = DefaultLimit
    /\ Len(meetings) > DefaultLimit

\* C9: the check query returns exists = (count > 0), the count, and the meeting
\* records the get query returns for the same parameters and table.
C9_CheckReturnsGetRecords ==
    /\ IsAnswered("natural_language_query", "check_meeting") =>
           /\ call.value.result.exists = (call.value.result.count > 0)
           /\ call.value.result.count = Len(ToolGet(call.value.parameters))
           /\ "meetings" \in DOMAIN call.value.result
           /\ call.value.result.meetings = ToolGet(call.value.parameters)
    /\ IsAnswered("process_query", "check_meeting") =>
           /\ call.value.result.exists = (call.value.result.count > 0)
           /\ call.value.result.count = Len(AgentGet(call.value.parameters))
           /\ "meetings" \in DOMAIN call.value.result
           /\ call.value.result.meetings = AgentGet(call.value.parameters)

\* the number of rows of the table that pass the filters of the parameters
ToolMatching(params) ==
    Cardinality({i \in 1..Len(meetings) : ToolMatches(params, meetings[i])})
AgentMatching(params) ==
    Cardinality({i \in 1..Len(meetings) : AgentMatches(params, meetings[i])})

IsOrdered(records) ==
    \A i, j \in 1..Len(records) :
        i < j => \/ records[i].scheduled_date < records[j].scheduled_date
                 \/ /\ records[i].scheduled_date = records[j].scheduled_date
                    /\ records[i].id < records[j].id

\* C11: the meetings returned by the natural-language get of DatabaseTool and of
\* DatabaseAgent and by get_meetings are ordered by scheduled time ascending, ties
\* in id order.
C11_ResultsOrdered ==
    /\ IsAnswered("natural_language_query", "get_meetings") =>
           IsOrdered(call.value.result.meetings)
    /\ IsAnswered("process_query", "get_meetings") => IsOrdered(call.value.result)
    /\ (call.op = "get_meetings" /\ call.out = "return") => IsOrdered(call.value)

\* the record passes every active filter of the parameters: the date range when the
\* kind is not all, the category keyword in the title when the category is not any,
\* the location when one is asked for
PassesFilters(kind, start, end, category, location, record) ==
    /\ kind # "all" => (record.scheduled_date >= start /\ record.scheduled_date <= end)
    /\ category # "any" => ILike(record.title, category)
    /\ location # None => ILike(record.location, location)

ToolPasses(params, record) ==
    PassesFilters(params.date_filter.type, Get(params.date_filter, "start", 0),
                  Get(params.date_filter, "end", 0), params.meeting_type,
                  params.location, record)

AgentPasses(params, record) ==
    PassesFilters(params.date_filter.type, Get(params.date_filter, "start_date", 0),
                  Get(params.date_filter, "end_date", 0), params.meeting_type,
                  None, record)

Ids(records) == {records[i].id : i \in 1..Len(records)}

\* C12: the get query returns a meeting only if it passes every active filter, and
\* a meeting that passes them is not excluded (the limit aside).
C12_GetIsConjunctionOfFilters ==
    /\ IsAnswered("natural_language_query", "get_meetings") =>
           /\ \A i \in 1..Len(call.value.result.meetings) :
                  ToolPasses(call.value.parameters, call.value.result.meetings[i])
           /\ Len(meetings) <= call.value.parameters.limit =>
                  \A i \in 1..Len(meetings) :
                      ToolPasses(call.value.parameters, meetings[i])
                          => meetings[i].id \in Ids(call.value.result.meetings)
    /\ IsAnswered("process_query", "get_meetings") =>
           /\ \A i \in 1..Len(call.value.result) :
                  AgentPasses(call.value.parameters, call.value.result[i])
           /\ Len(meetings) <= call.value.parameters.limit =>
                  \A i \in 1..Len(meetings) :
                      AgentPasses(call.value.parameters, meetings[i])
                          => meetings[i].id \in Ids(call.value.result)

\* the record passes the category filter of a team query: "team" in the title or a
\* participants list that is not empty
IsTeamMeeting(record) == ILike(record.title, "team") \/ Len(record.participants) > 0

\* the rows of the table a team query is to return: those passing the date and the
\* location filter that are team meetings
ToolTeamRows(params) ==
    {i \in 1..Len(meetings) :
        /\ ToolPasses([params EXCEPT !.meeting_type = "any"], meetings[i])
        /\ IsTeamMeeting(meetings[i])}

AgentTeamRows(params) ==
    {i \in 1..Len(meetings) :
        /\ AgentPasses([params EXCEPT !.meeting_type = "any"], meetings[i])
        /\ IsTeamMeeting(meetings[i])}

\* a get query for team meetings made of the agent, nothing failing
IsAgentTeamGet ==
    /\ call.op = "process_query"
    /\ call.db_ok
    /\ call.fault = "none"
    /\ AgentParsed[today][call.message].query_type = "get_meetings"
    /\ AgentParsed[today][call.message].params.meeting_type = "team"

\* C13: for the team category the get query returns the meetings whose title contains
\* "team" or whose participants list is not empty, so a meeting with participants is
\* returned whatever its title.
C13_TeamIsTitleOrParticipants ==
    /\ (/\ IsAnswered("natural_language_query", "get_meetings")
        /\ call.value.parameters.meeting_type = "team"
        /\ Len(meetings) <= call.value.parameters.limit) =>
           Ids(call.value.result.meetings)
               = {meetings[i].id : i \in ToolTeamRows(call.value.parameters)}
    /\ (IsAgentTeamGet /\ Len(meetings) <= 10) =>
           /\ IsAnswered("process_query", "get_meetings")
           /\ Ids(call.value.result)
                  = {meetings[i].id : i \in AgentTeamRows(call.value.parameters)}

\* the markers of the date rules (the yesterday markers are those of DatabaseTool;
\* DatabaseAgent has none)
HasMarker(kind, message) ==
    Search(IF kind = "yesterday" THEN ToolDateKeywords.yesterday ELSE AgentPatterns[kind],
           Lower(message))

\* process_query returned the parameters it extracted from the message
HasParameters == call.op = "process_query" /\ "parameters" \in DOMAIN call.value

\* C14: a text with a tomorrow marker and no today or yesterday marker gets the date
\* filter of kind tomorrow, from the midnight one calendar day after today's to the
\* last instant of that day.
C14_TomorrowIsNextDay ==
    (/\ HasParameters
     /\ HasMarker("tomorrow", call.message)
     /\ ~HasMarker("today", call.message)
     /\ ~HasMarker("yesterday", call.message)) =>
        /\ call.value.parameters.date_filter.type = "tomorrow"
        /\ call.value.parameters.date_filter.start_date = Midnight(today) + TicksPerDay
        /\ call.value.parameters.date_filter.end_date
               = Midnight(today) + 2 * TicksPerDay - 1

C14_Witness ==
    /\ HasParameters
    /\ call.message = "show tomorrow"
    /\ call.value.query_type = "get_meetings"
    /\ call.value.parameters.date_filter.type = "tomorrow"
    /\ call.value.parameters.date_filter.start_date = Midnight(today + 1)

\* the kind the date rules give a text, tested in the order today, tomorrow,
\* yesterday, week; has(kind) tells whether the text has a marker of the kind
KindInOrder(has) ==
    IF has["today"] THEN "today"
    ELSE IF has["tomorrow"] THEN "tomorrow"
    ELSE IF has["yesterday"] THEN "yesterday"
    ELSE IF has["week"] THEN "week"
    ELSE "all"

DateKinds == {"today", "tomorrow", "yesterday", "week"}

AgentMarkers(message) == [kind \in DateKinds |-> HasMarker(kind, message)]
ToolMarkers(message) ==
    [kind \in DateKinds |-> SearchWord(ToolDateKeywords[kind], Lower(message))]

\* C15: the date rules are tested in the order today, tomorrow, yesterday, week and
\* the first that matches gives the kind; the range of kind yesterday is the day
\* before today.
C15_DateRulesInOrder ==
    /\ HasParameters =>
           /\ call.value.parameters.date_filter.type
                  = KindInOrder(AgentMarkers(call.message))
           /\ call.value.parameters.date_filter.type = "yesterday" =>
                  /\ call.value.parameters.date_filter.start_date
                         = Midnight(today) - TicksPerDay
                  /\ call.value.parameters.date_filter.end_date = Midnight(today) - 1
    /\ (call.op = "natural_language_query" /\ "parameters" \in DOMAIN call.value) =>
           /\ call.value.parameters.date_filter.type
                  = KindInOrder(ToolMarkers(call.message))
           /\ call.value.parameters.date_filter.type = "yesterday" =>
                  /\ call.value.parameters.date_filter.start = Midnight(today) - TicksPerDay
                  /\ call.value.parameters.date_filter.end = Midnight(today) - 1

\* C16: a date filter of a kind other than all has start <= end, that of kind week
\* running from today 00:00:00 to the last instant of today + 7 days; a filter of
\* kind all has no bounds and the get query applies no date predicate for it.
C16_DateFilterWellFormed ==
    HasParameters =>
        /\ call.value.parameters.date_filter.type # "all" =>
               call.value.parameters.date_filter.start_date
                   <= call.value.parameters.date_filter.end_date
        /\ call.value.parameters.date_filter.type = "week" =>
               /\ call.value.parameters.date_filter.start_date = Midnight(today)
               /\ call.value.parameters.date_filter.end_date
                      = Midnight(today) + 8 * TicksPerDay - 1
        /\ call.value.parameters.date_filter.type = "all" =>
               /\ DOMAIN call.value.parameters.date_filter = {"type"}
               /\ (/\ call.value.query_type = "get_meetings"
                   /\ call.fault = "none"
                   /\ call.value.parameters.meeting_type = "any"
                   /\ Len(meetings) <= call.value.parameters.limit) =>
                      Ids(call.value.result) = Ids(meetings)

C16_Witness ==
    /\ HasParameters
    /\ call.message = "show meetings this week"
    /\ call.value.parameters.date_filter.type = "week"
    /\ call.value.parameters.date_filter.start_date
           < call.value.parameters.date_filter.end_date
    /\ Len(call.value.result) = 2

\* the category the keyword sets give a text, tested in the order review, team,
\* client
CategoryInOrder(has_review, has_team, has_client) ==
    IF has_review THEN "review"
    ELSE IF has_team THEN "team"
    ELSE IF has_client THEN "client"
    ELSE "any"

\* C17: the category of a query is the first of review, team, client whose keyword
\* set matches the message, and any when none matches.
C17_CategoryInOrder ==
    /\ HasParameters =>
           call.value.parameters.meeting_type
               = CategoryInOrder(Search(AgentPatterns.review, Lower(call.message)),
                                 Search(AgentPatterns.team, Lower(call.message)),
                                 Search(ToolMeetingKeywords.client, Lower(call.message)))
    /\ (call.op = "natural_language_query" /\ "parameters" \in DOMAIN call.value) =>
           call.value.parameters.meeting_type
               = CategoryInOrder(SearchWord(ToolMeetingKeywords.review, Lower(call.message)),
                                 SearchWord(ToolMeetingKeywords.team, Lower(call.message)),
                                 SearchWord(ToolMeetingKeywords.client, Lower(call.message)))

\* an explicit date string that is no keyword and that strptime rejects
IsUnparseable(date) ==
    /\ date \notin {None, "", "today", "tomorrow", "yesterday"}
    /\ strptime(date).out = "raise"

InTomorrow(instant) ==
    /\ instant >= Midnight(today) + TicksPerDay
    /\ instant <= Midnight(today) + 2 * TicksPerDay - 1

\* C18: a date string that cannot be parsed never raises and stands for tomorrow:
\* SchedulingAgent checks and stores the meeting at tomorrow, and the listings by
\* date return the meetings of tomorrow.
C18_UnparseableDateIsTomorrow ==
    /\ (call.op = "agent_schedule_meeting" /\ IsUnparseable(call.date)) =>
           /\ call.out = "return"
           /\ call.value.status \in {"scheduled", "exists"} =>
                  \E i \in 1..Len(meetings) :
                      /\ meetings[i].id = call.value.meeting_id
                      /\ meetings[i].scheduled_date = Midnight(today) + TicksPerDay
    /\ (/\ call.op \in {"get_meetings", "agent_get_meetings"}
        /\ IsUnparseable(call.date)
        /\ call.fault = "none") =>
           /\ call.out = "return"
           /\ \A i \in 1..Len(call.value) : InTomorrow(call.value[i].scheduled_date)

\* the table holds exactly the meeting Team Review, in London, tomorrow at noon, with
\* no participants
OnlyTeamReview ==
    /\ Len(meetings) = 1
    /\ meetings[1].title = "Team Review"
    /\ meetings[1].location = "London"
    /\ meetings[1].scheduled_date = Midnight(today) + TicksPerDay + 1
    /\ meetings[1].participants = << >>

\* a natural-language query of that text made of the tool or of the agent, nothing
\* failing
IsQuery(text) ==
    /\ call.op \in {"natural_language_query", "process_query"}
    /\ call.message = text
    /\ call.db_ok
    /\ call.fault = "none"

\* the records a get query returned, whichever of the two made it
Records(result) == IF "meetings" \in DOMAIN result THEN result.meetings ELSE result

\* C19: on a table holding only Team Review (London, tomorrow noon, no participants),
\* "show team meetings tomorrow" returns that record and "how many team meetings
\* tomorrow" returns count 1.
C19_EndToEnd ==
    /\ (OnlyTeamReview /\ IsQuery("show team meetings tomorrow")) =>
           /\ "query_type" \in DOMAIN call.value
           /\ call.value.query_type = "get_meetings"
           /\ Len(Records(call.value.result)) = 1
           /\ Records(call.value.result)[1].id = meetings[1].id
           /\ Records(call.value.result)[1].title = "Team Review"
    /\ (OnlyTeamReview /\ IsQuery("how many team meetings tomorrow")) =>
           /\ "query_type" \in DOMAIN call.value
           /\ call.value.query_type = "count_meetings"
           /\ call.value.result.count = 1

\* the call repeats the noted one: the same operation on the same message at the
\* same clock value
IsRepeat ==
    /\ call.op \in {"process", "natural_language_query", "process_query"}
    /\ call.op = noted.call.op
    /\ call.message = noted.call.message
    /\ today = noted.day

\* the query type and the parameters in what a call returned: those of the query
\* itself, or those in the data of the orchestrator's answer
Parsed(value) ==
    IF "parameters" \in DOMAIN value
    THEN [known |-> TRUE, query_type |-> value.query_type,
          parameters |-> value.parameters]
    ELSE IF "data" \in DOMAIN value /\ "parameters" \in DOMAIN value.data
    THEN [known |-> TRUE, query_type |-> value.data.query_type,
          parameters |-> value.data.parameters]
    ELSE [known |-> FALSE]

IsCreated(row, title) == row.title = title /\ row.status = "scheduled"

\* C22: DatabaseTool.create_meeting writes at most once per call: on success exactly
\* one meeting is added and returned with status "success"; when a statement on the
\* store fails the table is as before the call and the caller gets status "error",
\* never an exception.
C22_CreateWritesOnceOrNothing ==
    call.op = "create_meeting" =>
        /\ Len(meetings) <= Len(call.before) + 1
        /\ call.out = "return"
        /\ call.value.status = "success" =>
               /\ Len(meetings) = Len(call.before) + 1
               /\ SubSeq(meetings, 1, Len(call.before)) = call.before
               /\ IsCreated(meetings[Len(meetings)], call.message)
               /\ call.value.meeting = to_dict(meetings[Len(meetings)])
        /\ call.fault # "none" =>
               /\ call.value.status = "error"
               /\ meetings = call.before

\* the meeting schedule_meeting was called for was in the table before the call
WasScheduled ==
    _check_existing_meeting(call.before, today, call.date, call.location,
                            call.message).found

\* C24: SchedulingAgent.schedule_meeting adds a meeting only when the weather lookup
\* gave no error, no meeting of that title, location and date existed and the weather
\* is good; with the outcomes error, exists and cancelled the table is as before;
\* and an existing meeting yields exists whatever the weather.
C24_OnlyGoodWeatherCreates ==
    call.op = "agent_schedule_meeting" =>
        /\ meetings # call.before =>
               /\ call.weather = "good"
               /\ ~WasScheduled
        /\ call.value.status \in {"error", "exists", "cancelled"} =>
               meetings = call.before
        /\ (WasScheduled /\ call.weather # "error" /\ call.fault = "none") =>
               call.value.status = "exists"

\* two rows are the same meeting: same title, location and scheduled date
SameMeeting(m, n) ==
    /\ m.title = n.title
    /\ m.location = n.location
    /\ m.scheduled_date = n.scheduled_date

C27_SessionClosed ==
    call.op = "agent_schedule_meeting" => call.session # "open"

\* the rows of the table that are the meeting of that title, location and instant
RowsOf(title, location, instant) ==
    {i \in 1..Len(meetings) :
        /\ meetings[i].title = title
        /\ meetings[i].location = location
        /\ meetings[i].scheduled_date = instant}

\* C26: two calls of schedule_meeting for the same title, location and date running
\* at once in good weather, each on its own session, create at most one meeting of
\* that title, location and date, however their checks and commits interleave.
C26_ConcurrentCallsCreateOnce ==
    \A t \in Tasks :
        tasks[t].pc # "idle" =>
            Cardinality(RowsOf(tasks[t].title, tasks[t].location,
                               _parse_date(tasks[t].date, today))) <= 1

\* the provider of the call did not answer
ProviderFailed ==
    \/ call.op = "get_weather" /\ (call.report.status # "ok" \/ call.geocode = "fail")
    \/ call.op \in {"search_web", "query_document"} /\ call.web.status = "fail"

\* C21: a failure of the weather provider or of the web-search provider is not raised
\* to the caller of get_weather, query_document or search_web: the call returns a
\* payload, and on the document and web path, unless the document answered, the
\* payload has source "error" and confidence 0.
C21_ProviderFailureIsReturned ==
    ProviderFailed =>
        /\ call.out = "return"
        /\ (call.op = "search_web" \/
            (call.op = "query_document" /\ call.value.source # "document")) =>
               /\ call.value.source = "error"
               /\ call.value.confidence = 0

C21_Witness ==
    /\ call.op = "query_document"
    /\ call.web.status = "fail"
    /\ call.document_id = 0
    /\ DOMAIN documents # {}
    /\ call.out = "return"
    /\ call.value.source = "error"

\* C23: get_weather returns a record with location, temperature and conditions for
\* every location and date, with or without an API key, whether the provider answers
\* or not; no location yields the "not found" error.
C23_AlwaysAWeatherRecord ==
    call.op = "get_weather" =>
        /\ call.out = "return"
        /\ "error" \notin DOMAIN call.value
        /\ {"location", "temperature", "conditions"} \subseteq DOMAIN call.value
        /\ call.value.location = call.location

C23_Witness ==
    /\ call.op = "get_weather"
    /\ call.api_key = "0123456789abcdef"
    /\ call.location = "Atlantis"
    /\ call.geocode = "empty"
    /\ call.report.status = "ok"
    /\ call.value.source = "openweathermap"
    /\ call.value.temperature = Deci(22)

\* a step in which a call of process_document, directly or from the upload endpoint,
\* or a call of process_document_async ends with status "success"
StoresDocument ==
    \/ /\ call.op = "idle"
       /\ call'.op = "process_document"
       /\ call'.value.status = "success"
    \/ /\ call.op = "idle"
       /\ call'.op = "upload_document"
       /\ call'.out = "return"
       /\ call'.value.document_info.status = "success"
    \/ \E t \in Tasks :
          /\ tasks[t].pc = "written"
          /\ tasks'[t].pc = "done"
          /\ tasks'[t].value.status = "success"

\* C28: the keys of the document collection are 1..n, n the number of calls of
\* process_document and process_document_async that succeeded, however the calls
\* interleave at their awaits: a call that succeeds adds one document under the next
\* id, a stored document is never changed, and a call that fails returns status
\* "error" and leaves the collection as it was.
C28_DocumentIdsConsecutive ==
    [][/\ DOMAIN documents' = 1..Cardinality(DOMAIN documents')
       /\ \A k \in DOMAIN documents' : documents'[k].id = k
       /\ \A k \in DOMAIN documents :
              k \in DOMAIN documents' /\ documents'[k] = documents[k]
       /\ IF StoresDocument
          THEN Cardinality(DOMAIN documents') = Cardinality(DOMAIN documents) + 1
          ELSE documents' = documents
       /\ (call.op = "idle" /\ call'.op = "process_document") =>
              /\ call'.out = "return"
              /\ call'.value.status =
                     IF documents' # documents THEN "success" ELSE "error"
       /\ \A t \in Tasks :
              (tasks[t].pc # "done" /\ tasks'[t].pc = "done") =>
                  tasks'[t].value.status =
                      IF documents' # documents THEN "success" ELSE "error"]_vars

C28_Witness ==
    /\ tasks[1].pc = "done"
    /\ tasks[2].pc = "done"
    /\ tasks[1].value.status = "success"
    /\ tasks[2].value.status = "success"
    /\ tasks[1].value.document_id = 2
    /\ tasks[2].value.document_id = 1
    /\ DOMAIN documents = {1, 2}

\* C29: when the upload endpoint answers status "success" with the message that the
\* document was uploaded and processed, the file has been processed and is in the
\* document collection, for .pdf, .txt and .docx.
C29_UploadSuccessMeansStored ==
    (/\ call.op = "upload_document"
     /\ call.out = "return"
     /\ call.value.status = "success"
     /\ call.value.message = "Document uploaded and processed successfully") =>
        /\ call.value.document_info.status = "success"
        /\ \E k \in (DOMAIN documents) \ (DOMAIN call.before) :
               documents[k].filename = call.filename

\* the text of the record names a bad condition
NamesBadCondition(weather_data) ==
    \E word \in {"rain", "storm", "thunderstorm", "snow", "extreme", "heavy"} :
        \/ Occurrences(Lower(Get(weather_data, "conditions", "")), word) # {}
        \/ Occurrences(Lower(Get(weather_data, "main", "")), word) # {}

=============================================================================
